---- MODULE Spec2Model ----
(***************************************************************************)
(* Model of @connectk12/exceljs: the text normalizer (helpers.sanitizeText) *)
(* and the row matchers of data.ts (findMatchingRowById,                    *)
(* findMatchingRowByName) over a worksheet of rows and cells.               *)
(*                                                                          *)
(* The specifications share the variables.  Spec calls findMatchingRowById  *)
(* on worksheets of identifiers, SpecByName calls the name matchers and the *)
(* next-record-set finders by name on worksheets of names, SpecSanitize     *)
(* applies sanitizeText to every text up to MaxLen characters and then to   *)
(* its own result, SpecCol applies colLetterToNumber to column codes,       *)
(* SpecRecordSet calls the record-set finders, SpecGroup the data-group     *)
(* finders and the row inserters, SpecValidate validateColumns and SpecCell *)
(* updateCell.  In these a behaviour is one call, but for the inserters of  *)
(* SpecGroup; SpecCalls runs any sequence of finder, validator and inserter *)
(* calls on one worksheet, SpecRepeat repeats createNewRowAfterRecordSet    *)
(* with the same arguments, and SpecScan (SpecScanFair with fairness) takes *)
(* one call of a boundary scan a loop test at a time.  op names the last    *)
(* call, args its arguments, result its value.                              *)
(*                                                                          *)
(* A JavaScript string is a sequence of one-character strings.  The value   *)
(* undefined, a null cell value and a value that is not a string are the    *)
(* one-element sequences below: no text of the model holds such an element. *)
(***************************************************************************)
EXTENDS Integers, Sequences, FiniteSets, TLC

VARIABLES worksheet, op, args, result

vars == <<worksheet, op, args, result>>

-----------------------------------------------------------------------------
(* Bounds of the model *)

\* longest text handed to sanitizeText in SpecSanitize
MaxLen == 5

\* rows of the worksheet that hold data; every later row is an empty row
MaxRows == 3

\* the same, for the worksheets of names in SpecByName
MaxNameRows == 2

-----------------------------------------------------------------------------
(* JavaScript values *)

undefined == <<"undefined">>
null == <<"null">>
NonText == <<"non-text">>

IsString(v) == v # undefined /\ v # null /\ v # NonText

\* JavaScript truthiness of a string-or-undefined value
Truthy(v) == IsString(v) /\ v # <<>>

LowerLetters ==
  <<"a","b","c","d","e","f","g","h","i","j","k","l","m",
    "n","o","p","q","r","s","t","u","v","w","x","y","z">>
UpperLetters ==
  <<"A","B","C","D","E","F","G","H","I","J","K","L","M",
    "N","O","P","Q","R","S","T","U","V","W","X","Y","Z">>
DigitChars == {"0","1","2","3","4","5","6","7","8","9"}
WhitespaceChars == {" ", "\t", "\n"}

LowerSet == {LowerLetters[i] : i \in 1..26}
UpperSet == {UpperLetters[i] : i \in 1..26}
\* the class [a-zA-Z0-9\s]
WordOrSpaceChars == LowerSet \cup UpperSet \cup DigitChars \cup WhitespaceChars

\* the upper-case letter of each lower-case letter
UpperOf == [c \in LowerSet |-> UpperLetters[CHOOSE i \in 1..26 : LowerLetters[i] = c]]

IsLower(c) == c \in LowerSet
IsUpper(c) == c \in UpperSet
IsWhitespace(c) == c \in WhitespaceChars
IsWordOrSpace(c) == c \in WordOrSpaceChars

ToUpperChar(c) == IF c \in LowerSet THEN UpperOf[c] ELSE c

-----------------------------------------------------------------------------
(* String primitives *)

\* s.replace(/[^a-zA-Z0-9\s]/g, "")
RECURSIVE StripSpecialChars(_)
StripSpecialChars(s) ==
  IF s = <<>> THEN <<>>
  ELSE IF IsWordOrSpace(Head(s)) THEN <<Head(s)>> \o StripSpecialChars(Tail(s))
       ELSE StripSpecialChars(Tail(s))

\* s.replace(/\s+/g, " "): each maximal run of whitespace becomes one space
RECURSIVE CollapseWhitespace(_)
CollapseWhitespace(s) ==
  IF s = <<>> THEN <<>>
  ELSE IF IsWhitespace(Head(s))
       THEN IF Tail(s) # <<>> /\ IsWhitespace(Head(Tail(s)))
            THEN CollapseWhitespace(Tail(s))
            ELSE <<" ">> \o CollapseWhitespace(Tail(s))
       ELSE <<Head(s)>> \o CollapseWhitespace(Tail(s))

\* s.toLocaleUpperCase()
ToUpperCase(s) == [i \in 1..Len(s) |-> ToUpperChar(s[i])]

RECURSIVE TrimStart(_)
TrimStart(s) ==
  IF s # <<>> /\ IsWhitespace(Head(s)) THEN TrimStart(Tail(s)) ELSE s

RECURSIVE TrimEnd(_)
TrimEnd(s) ==
  IF s # <<>> /\ IsWhitespace(s[Len(s)]) THEN TrimEnd(SubSeq(s, 1, Len(s) - 1)) ELSE s

\* s.trim()
Trim(s) == TrimEnd(TrimStart(s))

\* s.endsWith(t)
EndsWith(s, t) ==
  Len(t) <= Len(s) /\ SubSeq(s, Len(s) - Len(t) + 1, Len(s)) = t

\* s.includes(t)
Includes(s, t) ==
  \E i \in 1..(Len(s) - Len(t) + 1) : SubSeq(s, i, i + Len(t) - 1) = t

\* position of the first occurrence of the non-empty t in s, 0 when there is none
IndexOf(s, t) ==
  IF Includes(s, t)
  THEN CHOOSE i \in 1..(Len(s) - Len(t) + 1) :
         /\ SubSeq(s, i, i + Len(t) - 1) = t
         /\ \A j \in 1..(i - 1) : SubSeq(s, j, j + Len(t) - 1) # t
  ELSE 0

\* s.split(d) for a non-empty delimiter d: the list of parts
RECURSIVE Split(_, _)
Split(s, d) ==
  LET i == IndexOf(s, d)
  IN IF i = 0 THEN <<s>>
     ELSE <<SubSeq(s, 1, i - 1)>> \o Split(SubSeq(s, i + Len(d), Len(s)), d)

-----------------------------------------------------------------------------
(* helpers.sanitizeText *)

\* an option of the opts object: "true", "false", or "absent" (key not set)
OptionValues == {"true", "false", "absent"}

\* the opts argument left out of the call
OptsOmitted == [given |-> FALSE]

\* the default parameter: it stands in only when the whole argument is left out
DefaultOpts ==
  [given |-> TRUE, removeSpecialChars |-> "true",
   removeWhitespace |-> "false", uppercase |-> "true"]

\* the opts object the body of sanitizeText reads
EffectiveOpts(opts) == IF opts.given THEN opts ELSE DefaultOpts

\* the options as the doc comment of sanitizeText gives them: every option left
\* out of a given object takes its own default
EffectiveOptsPerKeyDefault(opts) ==
  IF opts.given
  THEN [given |-> TRUE,
        removeSpecialChars |->
          IF opts.removeSpecialChars = "absent" THEN "true" ELSE opts.removeSpecialChars,
        removeWhitespace |->
          IF opts.removeWhitespace = "absent" THEN "false" ELSE opts.removeWhitespace,
        uppercase |->
          IF opts.uppercase = "absent" THEN "true" ELSE opts.uppercase]
  ELSE DefaultOpts

\* the mutation: whitespace is collapsed before the special characters go
SanitizeStepsCollapseFirst(text, o) ==
  LET s1 == IF o.removeWhitespace = "true" THEN CollapseWhitespace(text) ELSE text
      s2 == IF o.removeSpecialChars = "true" THEN StripSpecialChars(s1) ELSE s1
      s3 == IF o.uppercase = "true" THEN ToUpperCase(s2) ELSE s2
  IN Trim(s3)

\* the body of sanitizeText for a non-empty string and the opts object o
SanitizeSteps(text, o) ==
  LET s1 == IF o.removeSpecialChars = "true" THEN StripSpecialChars(text) ELSE text
      s2 == IF o.removeWhitespace = "true" THEN CollapseWhitespace(s1) ELSE s1
      s3 == IF o.uppercase = "true" THEN ToUpperCase(s2) ELSE s2
  IN Trim(s3)

sanitizeText(text, opts) ==
  IF Truthy(text) THEN SanitizeSteps(text, EffectiveOpts(opts)) ELSE undefined

-----------------------------------------------------------------------------
(* SpecSanitize: sanitizeText applied to bounded inputs, then to its result *)

SanitizeAlphabet == {"a", "1", " ", "\t", "-"}

RECURSIVE StringsUpTo(_, _)
StringsUpTo(alphabet, n) ==
  IF n = 0 THEN {<<>>}
  ELSE LET shorter == StringsUpTo(alphabet, n - 1)
       IN shorter \cup {Append(s, c) : s \in shorter, c \in alphabet}

SanitizeInputs == StringsUpTo(SanitizeAlphabet, MaxLen) \cup {undefined, NonText}

OptsObjects ==
  {OptsOmitted} \cup
  [given : {TRUE}, removeSpecialChars : OptionValues,
   removeWhitespace : OptionValues, uppercase : OptionValues]

NoSheet == <<>>

InitSanitize ==
  /\ worksheet = NoSheet
  /\ op = "init"
  /\ \E t \in SanitizeInputs, o \in OptsObjects : args = [text |-> t, opts |-> o]
  /\ result = undefined

\* const r = sanitizeText(text, opts)
CallSanitizeText ==
  /\ op = "init"
  /\ op' = "sanitizeText"
  /\ result' = sanitizeText(args.text, args.opts)
  /\ UNCHANGED <<worksheet, args>>

\* sanitizeText(r, opts): the result normalized again under the same options
CallSanitizeTextAgain ==
  /\ op = "sanitizeText"
  /\ op' = "sanitizeTextAgain"
  /\ args' = [text |-> result, opts |-> args.opts]
  /\ result' = sanitizeText(result, args.opts)
  /\ UNCHANGED worksheet

NextSanitize == CallSanitizeText \/ CallSanitizeTextAgain

SpecSanitize == InitSanitize /\ [][NextSanitize]_vars

-----------------------------------------------------------------------------
(* The worksheet: row n is worksheet[n], a record of cell values by column   *)
(* letter.  A cell value is a text or null; a row past the data is empty.    *)

Columns == {"A", "B"}

EmptyRow == [c \in Columns |-> null]

\* worksheet.getRow(n): a row past the last stored one is created empty
getRow(ws, n) == IF n \in 1..Len(ws) THEN ws[n] ELSE EmptyRow

\* row.getCell(col).value?.toString()
CellText(ws, n, col) ==
  LET value == getRow(ws, n)[col]
  IN IF value = null THEN undefined ELSE value

\* "no row": the undefined a matcher returns
NotFound == 0

\* the undefined that getRows returns
NoRows == <<>>

\* worksheet.getRows(start, length): the row numbers start .. start+length-1,
\* undefined when length < 1
getRows(start, length) ==
  IF length < 1 THEN NoRows ELSE [i \in 1..length |-> start + i - 1]

\* rows.find(...): the first row of the list whose test passed, else undefined;
\* passes[i] is the callback's value for rows[i]
Find(rows, passes) ==
  IF \E i \in 1..Len(rows) : passes[i]
  THEN rows[CHOOSE i \in 1..Len(rows) : passes[i] /\ \A j \in 1..(i - 1) : ~passes[j]]
  ELSE NotFound

-----------------------------------------------------------------------------
(* data.findMatchingRowById *)

\* the lookupCondition callbacks of the model, applied to a normalized value
LookupConditions == {"absent", "startsWithB", "never"}

ApplyCondition(cond, value) ==
  CASE cond = "startsWithB" -> value # <<>> /\ value[1] = "B"
    [] cond = "never" -> FALSE
    [] OTHER -> TRUE

\* opts?.findSimilarMatchWithLastDigits
SuffixOption(opts) == opts.given /\ opts.findSimilarMatchWithLastDigits = "true"

\* the mutation: the suffix fallback is tried before lookupCondition
findMatchingRowByIdSuffixFirst(ws, a) ==
  LET rows == getRows(a.startRowNumber, a.lastRowNumber)
      lookupValue(n) == sanitizeText(CellText(ws, n, a.lookupCol), OptsOmitted)
      row == Find(rows, [i \in 1..Len(rows) |->
                          sanitizeText(a.id, OptsOmitted) = lookupValue(rows[i])])
  IN IF rows = NoRows THEN NotFound
     ELSE IF row = NotFound /\ SuffixOption(a.opts)
     THEN Find(rows, [i \in 1..Len(rows) |->
                       /\ lookupValue(rows[i]) # undefined
                       /\ EndsWith(lookupValue(rows[i]), a.id)])
     ELSE IF row = NotFound /\ a.lookupCondition # "absent"
     THEN Find(rows, [i \in 1..Len(rows) |->
                       /\ Truthy(lookupValue(rows[i]))
                       /\ ApplyCondition(a.lookupCondition, lookupValue(rows[i]))])
     ELSE row

findMatchingRowById(ws, a) ==
  LET rows == getRows(a.startRowNumber, a.lastRowNumber)
      lookupValue(n) == sanitizeText(CellText(ws, n, a.lookupCol), OptsOmitted)
      row == Find(rows, [i \in 1..Len(rows) |->
                          sanitizeText(a.id, OptsOmitted) = lookupValue(rows[i])])
  IN IF rows = NoRows THEN NotFound
     ELSE IF row = NotFound /\ a.lookupCondition # "absent"
     THEN Find(rows, [i \in 1..Len(rows) |->
                       /\ Truthy(lookupValue(rows[i]))
                       /\ ApplyCondition(a.lookupCondition, lookupValue(rows[i]))])
     ELSE IF row = NotFound /\ SuffixOption(a.opts)
     THEN Find(rows, [i \in 1..Len(rows) |->
                       /\ lookupValue(rows[i]) # undefined
                       /\ EndsWith(lookupValue(rows[i]), a.id)])
     ELSE row

-----------------------------------------------------------------------------
(* Spec: findMatchingRowById called on a worksheet of identifiers *)

\* cell values of the identifier column: empty, special characters only,
\* "1", "A1" and "b-1" (normalized "B1")
IdCells == {null, <<"-">>, <<"1">>, <<"A", "1">>, <<"b", "-", "1">>}

\* the id argument: "", "1", "a-1" (normalized "A1") and "-1" (normalized "1")
IdArgs == {<<>>, <<"1">>, <<"a", "-", "1">>, <<"-", "1">>}

IdSheets ==
  {[n \in 1..MaxRows |-> [A |-> ids[n], B |-> null]] : ids \in [1..MaxRows -> IdCells]}

ByIdOpts ==
  {[given |-> FALSE],
   [given |-> TRUE, findSimilarMatchWithLastDigits |-> "true"],
   [given |-> TRUE, findSimilarMatchWithLastDigits |-> "false"]}

Init ==
  /\ worksheet \in IdSheets
  /\ op = "init"
  /\ args = <<>>
  /\ result = NotFound

CallFindMatchingRowById ==
  /\ op = "init"
  /\ \E start \in 1..MaxRows, last \in 0..MaxRows, id \in IdArgs,
        cond \in LookupConditions, o \in ByIdOpts :
       /\ args' = [startRowNumber |-> start, lastRowNumber |-> last, id |-> id,
                   lookupCol |-> "A", lookupCondition |-> cond, opts |-> o]
       /\ result' = findMatchingRowById(worksheet, args')
  /\ op' = "findMatchingRowById"
  /\ UNCHANGED worksheet

Next == CallFindMatchingRowById

Spec == Init /\ [][Next]_vars

-----------------------------------------------------------------------------
(* data.findMatchingRowByName *)

\* the options object { uppercase: true }
UppercaseOnly ==
  [given |-> TRUE, removeSpecialChars |-> "absent",
   removeWhitespace |-> "absent", uppercase |-> "true"]

NoNames == [lastName |-> undefined, firstName |-> undefined]

\* lookupCols.delimiter ?? " "
Delimiter(lookupCols) ==
  IF lookupCols.delimiter = undefined THEN <<" ">> ELSE lookupCols.delimiter

\* opts?.findSimilarMatch ?? true
FindSimilarMatch(opts) == ~opts.given \/ opts.findSimilarMatch # "false"

\* nameValues.map(...): the candidates, normalized
sanitizedNameValues(nameValues) ==
  [i \in 1..Len(nameValues) |->
     [lastName |-> sanitizeText(nameValues[i].lastName, UppercaseOnly),
      firstName |-> sanitizeText(nameValues[i].firstName, UppercaseOnly)]]

\* worksheetLastName and worksheetFirstName of row n
worksheetNames(ws, n, lookupCols) ==
  IF lookupCols.kind = "separate"
  THEN [lastName |-> sanitizeText(CellText(ws, n, lookupCols.lastName), UppercaseOnly),
        firstName |-> sanitizeText(CellText(ws, n, lookupCols.firstName), UppercaseOnly)]
  ELSE LET currentRowName == sanitizeText(CellText(ws, n, lookupCols.name), UppercaseOnly)
           nameArray == Split(currentRowName, Delimiter(lookupCols))
       IN IF Truthy(currentRowName) /\ Len(nameArray) > 1
          THEN IF lookupCols.order = "FIRST_NAME LAST_NAME"
               THEN [lastName |-> sanitizeText(nameArray[2], UppercaseOnly),
                     firstName |-> sanitizeText(nameArray[1], UppercaseOnly)]
               ELSE [lastName |-> sanitizeText(nameArray[1], UppercaseOnly),
                     firstName |-> sanitizeText(nameArray[2], UppercaseOnly)]
          ELSE NoNames

\* the mutation: the exact test without its guard against missing row names
exactNameMatchUnguarded(ws, n, a) ==
  LET w == worksheetNames(ws, n, a.lookupCols)
      cands == sanitizedNameValues(a.nameValues)
  IN \E i \in 1..Len(cands) :
       w.lastName = cands[i].lastName /\ w.firstName = cands[i].firstName

\* the mutation: the exact test compares the last names only
exactNameMatchLastNameOnly(ws, n, a) ==
  LET w == worksheetNames(ws, n, a.lookupCols)
      cands == sanitizedNameValues(a.nameValues)
  IN /\ Truthy(w.lastName) /\ Truthy(w.firstName)
     /\ \E i \in 1..Len(cands) : w.lastName = cands[i].lastName

\* the callback of the first rows.find: the exact test of row n
exactNameMatch(ws, n, a) ==
  LET w == worksheetNames(ws, n, a.lookupCols)
      cands == sanitizedNameValues(a.nameValues)
  IN /\ Truthy(w.lastName) /\ Truthy(w.firstName)
     /\ \E i \in 1..Len(cands) :
          w.lastName = cands[i].lastName /\ w.firstName = cands[i].firstName

\* the mutation: containment is tested in one direction only
similarNameMatchOneWay(ws, n, a) ==
  LET w == worksheetNames(ws, n, a.lookupCols)
      cands == sanitizedNameValues(a.nameValues)
  IN /\ Truthy(w.lastName) /\ Truthy(w.firstName)
     /\ \E i \in 1..Len(cands) :
          /\ Truthy(cands[i].lastName) /\ Truthy(cands[i].firstName)
          /\ Includes(w.lastName, cands[i].lastName)
          /\ Includes(w.firstName, cands[i].firstName)

\* the callback of the second rows.find: the similar test of row n
similarNameMatch(ws, n, a) ==
  LET w == worksheetNames(ws, n, a.lookupCols)
      cands == sanitizedNameValues(a.nameValues)
  IN /\ Truthy(w.lastName) /\ Truthy(w.firstName)
     /\ \E i \in 1..Len(cands) :
          /\ Truthy(cands[i].lastName) /\ Truthy(cands[i].firstName)
          /\ \/ /\ Includes(w.lastName, cands[i].lastName)
                /\ Includes(w.firstName, cands[i].firstName)
             \/ /\ Includes(cands[i].lastName, w.lastName)
                /\ Includes(cands[i].firstName, w.firstName)

\* the two passes over a list of rows
findMatchingRowByNameIn(ws, rows, a) ==
  LET row == Find(rows, [i \in 1..Len(rows) |-> exactNameMatch(ws, rows[i], a)])
  IN IF rows = NoRows THEN NotFound
     ELSE IF row = NotFound /\ FindSimilarMatch(a.opts)
     THEN Find(rows, [i \in 1..Len(rows) |-> similarNameMatch(ws, rows[i], a)])
     ELSE row

findMatchingRowByName(ws, a) ==
  findMatchingRowByNameIn(ws, getRows(a.startRowNumber, a.lastRowNumber), a)

-----------------------------------------------------------------------------
(* data.findMatchingRowByName, the second definition of the file (the one    *)
(* beside findNextDifferentEmployeeRowById): names are normalized with the   *)
(* default options and the parts of a combined name are trimmed              *)

\* nameArray[i]?.trim()
TrimPart(nameArray, i) == IF i <= Len(nameArray) THEN Trim(nameArray[i]) ELSE undefined

worksheetEmployeeNames(ws, n, lookupCols) ==
  IF lookupCols.kind = "separate"
  THEN [lastName |-> sanitizeText(CellText(ws, n, lookupCols.lastName), OptsOmitted),
        firstName |-> sanitizeText(CellText(ws, n, lookupCols.firstName), OptsOmitted)]
  ELSE LET worksheetEmployeeName == sanitizeText(CellText(ws, n, lookupCols.name), OptsOmitted)
           nameArray == Split(worksheetEmployeeName, Delimiter(lookupCols))
       IN IF Truthy(worksheetEmployeeName) /\ Len(nameArray) > 1
          THEN IF lookupCols.order = "FIRST_NAME LAST_NAME"
               THEN [lastName |-> TrimPart(nameArray, 2), firstName |-> TrimPart(nameArray, 1)]
               ELSE [lastName |-> TrimPart(nameArray, 1), firstName |-> TrimPart(nameArray, 2)]
          ELSE NoNames

sanitizedEmployeeNameValues(nameValues) ==
  [i \in 1..Len(nameValues) |->
     [lastName |-> sanitizeText(nameValues[i].lastName, OptsOmitted),
      firstName |-> sanitizeText(nameValues[i].firstName, OptsOmitted)]]

exactEmployeeNameMatch(ws, n, a) ==
  LET w == worksheetEmployeeNames(ws, n, a.lookupCols)
      cands == sanitizedEmployeeNameValues(a.nameValues)
  IN /\ Truthy(w.lastName) /\ Truthy(w.firstName)
     /\ \E i \in 1..Len(cands) :
          w.lastName = cands[i].lastName /\ w.firstName = cands[i].firstName

similarEmployeeNameMatch(ws, n, a) ==
  LET w == worksheetEmployeeNames(ws, n, a.lookupCols)
      cands == sanitizedEmployeeNameValues(a.nameValues)
  IN /\ Truthy(w.lastName) /\ Truthy(w.firstName)
     /\ \E i \in 1..Len(cands) :
          /\ Truthy(cands[i].lastName) /\ Truthy(cands[i].firstName)
          /\ \/ /\ Includes(w.lastName, cands[i].lastName)
                /\ Includes(w.firstName, cands[i].firstName)
             \/ /\ Includes(cands[i].lastName, w.lastName)
                /\ Includes(cands[i].firstName, w.firstName)

findMatchingRowByNameEmployee(ws, a) ==
  LET employeeRows == getRows(a.startRowNumber, a.lastRowNumber)
      row == Find(employeeRows, [i \in 1..Len(employeeRows) |->
                                  exactEmployeeNameMatch(ws, employeeRows[i], a)])
  IN IF employeeRows = NoRows THEN NotFound
     ELSE IF row = NotFound /\ FindSimilarMatch(a.opts)
     THEN Find(employeeRows, [i \in 1..Len(employeeRows) |->
                               similarEmployeeNameMatch(ws, employeeRows[i], a)])
     ELSE row

-----------------------------------------------------------------------------
(* data.findNextRecordSetRowByName and data.findNextDifferentEmployeeRowByName *)

\* the options object { removeSpecialChars: false, removeWhitespace: false }
KeepSpecialChars ==
  [given |-> TRUE, removeSpecialChars |-> "false",
   removeWhitespace |-> "false", uppercase |-> "absent"]

\* the last and first name the two functions derive from row n
recordSetNames(ws, n, lookupCols) ==
  IF lookupCols.kind = "separate"
  THEN [lastName |-> sanitizeText(CellText(ws, n, lookupCols.lastName), OptsOmitted),
        firstName |-> sanitizeText(CellText(ws, n, lookupCols.firstName), OptsOmitted)]
  ELSE LET currentRowName == sanitizeText(CellText(ws, n, lookupCols.name), KeepSpecialChars)
           nameArray == Split(currentRowName, Delimiter(lookupCols))
       IN IF Truthy(currentRowName) /\ Len(nameArray) > 1
          THEN IF lookupCols.order = "FIRST_NAME LAST_NAME"
               THEN [lastName |-> TrimPart(nameArray, 2), firstName |-> TrimPart(nameArray, 1)]
               ELSE [lastName |-> TrimPart(nameArray, 1), firstName |-> TrimPart(nameArray, 2)]
          ELSE NoNames

\* condition.condition(cell), for the callbacks of the model
ApplyCellCondition(condition, value) ==
  CASE condition = "hasValue" -> value # null
    [] condition = "never" -> FALSE
    [] OTHER -> TRUE

\* conditions ? conditions.every(...) : true
EveryCondition(ws, n, conditions) ==
  \/ ~conditions.given
  \/ \A k \in 1..Len(conditions.list) :
       ApplyCellCondition(conditions.list[k].condition,
                          getRow(ws, n)[conditions.list[k].col])

\* the mutation: a row counts as another name only when both names differ
nextRecordSetRowByNameTestBothDiffer(ws, n, current, a) ==
  LET next == recordSetNames(ws, n, a.lookupCols)
  IN IF ~Truthy(next.lastName) \/ ~Truthy(next.firstName) THEN TRUE
     ELSE /\ (next.lastName # current.lastName /\ next.firstName # current.firstName)
          /\ EveryCondition(ws, n, a.conditions)

\* the callback of rows.find; current holds the names of the start row
nextRecordSetRowByNameTest(ws, n, current, a) ==
  LET next == recordSetNames(ws, n, a.lookupCols)
  IN IF ~Truthy(next.lastName) \/ ~Truthy(next.firstName) THEN TRUE
     ELSE /\ (next.lastName # current.lastName \/ next.firstName # current.firstName)
          /\ EveryCondition(ws, n, a.conditions)

findNextRecordSetRowByName(ws, a) ==
  LET current == recordSetNames(ws, a.startRowNumber, a.lookupCols)
      rows == getRows(a.startRowNumber, a.lastRowNumber)
  IN IF rows = NoRows THEN NotFound
     ELSE Find(rows, [i \in 1..Len(rows) |->
                       nextRecordSetRowByNameTest(ws, rows[i], current, a)])

findNextDifferentEmployeeRowByName(ws, a) ==
  LET current == recordSetNames(ws, a.currentEmployeeRow, a.lookupCols)
      employeeRows == getRows(a.currentEmployeeRow, a.lastRowNumber)
  IN IF employeeRows = NoRows THEN NotFound
     ELSE Find(employeeRows, [i \in 1..Len(employeeRows) |->
                               nextRecordSetRowByNameTest(ws, employeeRows[i], current, a)])

-----------------------------------------------------------------------------
(* SpecByName: findMatchingRowByName called on a worksheet of names *)

Jo == <<"J", "o">>
Joe == <<"J", "O", "E">>
Doe == <<"D", "o", "e">>
ApostropheName == <<"O", "'", "D">>
CommaSpace == <<",", " ">>

\* rows of names: first and last name in columns A and B, or a combined name
\* in column A
NameRows ==
  {[A |-> Jo, B |-> Doe],
   [A |-> Joe, B |-> Doe],
   [A |-> Jo, B |-> ApostropheName],
   [A |-> <<"d", "o", "e">> \o CommaSpace \o <<"j", "o">>, B |-> null],
   [A |-> Jo \o <<" ">> \o Doe, B |-> null],
   [A |-> null, B |-> Doe],
   [A |-> CommaSpace \o Jo, B |-> null]}

NameSheets == [1..MaxNameRows -> NameRows]

\* the candidates: lower-case, containing a row's name, without the
\* apostrophe, without a first name, and last name first
NameValueLists ==
  {<<[firstName |-> <<"j", "o">>, lastName |-> <<"d", "o", "e">>]>>,
   <<[firstName |-> Joe, lastName |-> Doe]>>,
   <<[firstName |-> Jo, lastName |-> <<"O", "D">>]>>,
   <<[firstName |-> undefined, lastName |-> Doe]>>,
   <<[firstName |-> <<"d", "o", "e">>, lastName |-> <<"j", "o">>]>>,
   <<[firstName |-> undefined, lastName |-> Doe],
     [firstName |-> <<"j", "o">>, lastName |-> <<"d", "o", "e">>]>>}

LookupColsValues ==
  {[kind |-> "separate", firstName |-> "A", lastName |-> "B"],
   [kind |-> "combined", name |-> "A", order |-> "LAST_NAME FIRST_NAME",
    delimiter |-> CommaSpace],
   [kind |-> "combined", name |-> "A", order |-> "FIRST_NAME LAST_NAME",
    delimiter |-> CommaSpace],
   [kind |-> "combined", name |-> "A", order |-> "FIRST_NAME LAST_NAME",
    delimiter |-> undefined]}

ByNameOpts ==
  {[given |-> FALSE],
   [given |-> TRUE, findSimilarMatch |-> "true"],
   [given |-> TRUE, findSimilarMatch |-> "false"]}

ByNameArgs ==
  [startRowNumber : 1..MaxNameRows, lastRowNumber : 0..MaxNameRows,
   nameValues : NameValueLists, lookupCols : LookupColsValues, opts : ByNameOpts]

InitByName ==
  /\ worksheet \in NameSheets
  /\ op = "init"
  /\ args = <<>>
  /\ result = NotFound

CallFindMatchingRowByName ==
  /\ op = "init"
  /\ \E a \in ByNameArgs :
       /\ args' = a
       /\ result' = findMatchingRowByName(worksheet, a)
  /\ op' = "findMatchingRowByName"
  /\ UNCHANGED worksheet

CallFindMatchingRowByNameEmployee ==
  /\ op = "init"
  /\ \E a \in ByNameArgs :
       /\ args' = a
       /\ result' = findMatchingRowByNameEmployee(worksheet, a)
  /\ op' = "findMatchingRowByNameEmployee"
  /\ UNCHANGED worksheet

\* the conditions argument: left out, one condition that rows without a value
\* in column B fail, and a list with a condition that every row fails
ConditionLists ==
  {[given |-> FALSE, list |-> <<>>],
   [given |-> TRUE, list |-> <<[col |-> "B", condition |-> "hasValue"]>>],
   [given |-> TRUE, list |-> <<[col |-> "B", condition |-> "hasValue"],
                               [col |-> "A", condition |-> "never"]>>]}

CallFindNextRecordSetRowByName ==
  /\ op = "init"
  /\ \E start \in 1..MaxNameRows, last \in 0..MaxNameRows,
        cols \in LookupColsValues, conds \in ConditionLists :
       /\ args' = [startRowNumber |-> start, lastRowNumber |-> last,
                   lookupCols |-> cols, conditions |-> conds]
       /\ result' = findNextRecordSetRowByName(worksheet, args')
  /\ op' = "findNextRecordSetRowByName"
  /\ UNCHANGED worksheet

CallFindNextDifferentEmployeeRowByName ==
  /\ op = "init"
  /\ \E current \in 1..MaxNameRows, last \in 0..MaxNameRows,
        cols \in LookupColsValues, conds \in ConditionLists :
       /\ args' = [currentEmployeeRow |-> current, lastRowNumber |-> last,
                   lookupCols |-> cols, conditions |-> conds]
       /\ result' = findNextDifferentEmployeeRowByName(worksheet, args')
  /\ op' = "findNextDifferentEmployeeRowByName"
  /\ UNCHANGED worksheet

NextByName ==
  \/ CallFindMatchingRowByName
  \/ CallFindMatchingRowByNameEmployee
  \/ CallFindNextRecordSetRowByName
  \/ CallFindNextDifferentEmployeeRowByName

SpecByName == InitByName /\ [][NextByName]_vars

-----------------------------------------------------------------------------
(* Claims about sanitizeText, checked under SpecSanitize *)

\* the options as the body of sanitizeText reads them in the recorded call
OptionSet(key) == EffectiveOpts(args.opts)[key] = "true"

\* C8: sanitizeText is idempotent: normalizing a result again under the same
\* options gives that result back, also when the result is the empty string.
C8_Idempotent ==
  op = "sanitizeTextAgain" => result = args.text

\* C9: an options object that sets only some options leaves every other option
\* at its own default (removeSpecialChars true, removeWhitespace false,
\* uppercase true), so e.g. {uppercase: true} still strips special characters.
C9_OmittedOptionsTakeDefaults ==
  (op = "sanitizeText" /\ Truthy(args.text)) =>
    result = SanitizeSteps(args.text, EffectiveOptsPerKeyDefault(args.opts))

\* the characters of s outside [a-zA-Z0-9\s] dropped
WithoutSpecials(s) == SelectSeq(s, IsWordOrSpace)

\* a whitespace character that follows a whitespace character is dropped, and
\* every whitespace character left becomes a space
RunsToOneSpace(s) ==
  LET kept == {i \in 1..Len(s) : ~IsWhitespace(s[i]) \/ i = Len(s) \/ ~IsWhitespace(s[i + 1])}
      nth(k) == CHOOSE i \in kept : Cardinality({j \in kept : j < i}) = k - 1
  IN [k \in 1..Cardinality(kept) |->
        IF IsWhitespace(s[nth(k)]) THEN " " ELSE s[nth(k)]]

\* the longest whitespace-free-ended middle of s
Trimmed(s) ==
  LET inner == {i \in 1..Len(s) : ~IsWhitespace(s[i])}
  IN IF inner = {} THEN <<>>
     ELSE SubSeq(s, CHOOSE i \in inner : \A j \in inner : i <= j,
                    CHOOSE i \in inner : \A j \in inner : i >= j)

\* C10: for a non-empty string sanitizeText strips the special characters (if
\* removeSpecialChars), then collapses whitespace runs to one space (if
\* removeWhitespace), then upper-cases (if uppercase), then always trims, so the
\* result has no leading or trailing whitespace; an absent, empty or non-text
\* input gives undefined.
C10_FixedOrderThenTrim ==
  op = "sanitizeText" =>
    IF IsString(args.text) /\ args.text # <<>>
    THEN LET s1 == IF OptionSet("removeSpecialChars") THEN WithoutSpecials(args.text)
                   ELSE args.text
             s2 == IF OptionSet("removeWhitespace") THEN RunsToOneSpace(s1) ELSE s1
             s3 == IF OptionSet("uppercase")
                   THEN [i \in 1..Len(s2) |-> ToUpperChar(s2[i])] ELSE s2
         IN /\ result = Trimmed(s3)
            /\ result # <<>> => ~IsWhitespace(result[1]) /\ ~IsWhitespace(result[Len(result)])
    ELSE result = undefined

\* a call where the order of the steps shows: the special character sits between
\* two whitespace characters, and all three options are on
C10_Witness ==
  /\ op = "sanitizeText"
  /\ args.text = <<"a", " ", "-", "\t", "1">>
  /\ args.opts = [given |-> TRUE, removeSpecialChars |-> "true",
                  removeWhitespace |-> "true", uppercase |-> "true"]
  /\ result = <<"A", " ", "1">>

-----------------------------------------------------------------------------
(* Claims about findMatchingRowById, checked under Spec *)

\* the row numbers the recorded call scanned
ScannedRows ==
  LET rows == getRows(args.startRowNumber, args.lastRowNumber)
  IN {rows[i] : i \in 1..Len(rows)}

\* the normalized lookup value of row n in the recorded call
NormalizedLookup(n) == sanitizeText(CellText(worksheet, n, args.lookupCol), OptsOmitted)

Lowest(S) == CHOOSE n \in S : \A m \in S : n <= m

FirstOf(S) == IF S = {} THEN NotFound ELSE Lowest(S)

ExactIdRows ==
  {n \in ScannedRows : NormalizedLookup(n) = sanitizeText(args.id, OptsOmitted)}

ConditionRows ==
  {n \in ScannedRows :
     /\ Truthy(NormalizedLookup(n))
     /\ ApplyCondition(args.lookupCondition, NormalizedLookup(n))}

SuffixRows ==
  {n \in ScannedRows :
     /\ NormalizedLookup(n) # undefined
     /\ EndsWith(NormalizedLookup(n), args.id)}

\* C1: findMatchingRowById tries its strategies in a fixed order, first hit
\* wins: the first exact match whatever the other arguments; else, when
\* lookupCondition is supplied, the first row with a non-empty normalized value
\* that satisfies it (the suffix fallback is then never consulted); else, when
\* findSimilarMatchWithLastDigits is set, the first row whose normalized value
\* ends with the raw id; else undefined.
C1_StrategyOrder ==
  op = "findMatchingRowById" =>
    IF ExactIdRows # {} THEN result = Lowest(ExactIdRows)
    ELSE IF args.lookupCondition # "absent" THEN result = FirstOf(ConditionRows)
    ELSE IF SuffixOption(args.opts) THEN result = FirstOf(SuffixRows)
    ELSE result = NotFound

\* no exact match, a lookupCondition that no row satisfies, the suffix option
\* set and a row that the suffix test would accept: the result is undefined
C1_Witness ==
  /\ op = "findMatchingRowById"
  /\ ExactIdRows = {}
  /\ args.lookupCondition # "absent"
  /\ ConditionRows = {}
  /\ SuffixOption(args.opts)
  /\ SuffixRows # {}
  /\ result = NotFound

\* C2: with startRowNumber <= lastRowNumber, a row returned by
\* findMatchingRowById or findMatchingRowByName has a number between
\* startRowNumber and lastRowNumber: no row after lastRowNumber is returned.
C2_ResultWithinRange ==
  (/\ op \in {"findMatchingRowById", "findMatchingRowByName"}
   /\ args.startRowNumber <= args.lastRowNumber
   /\ result # NotFound)
    => (args.startRowNumber <= result /\ result <= args.lastRowNumber)

-----------------------------------------------------------------------------
(* Claims about findMatchingRowByName, checked under SpecByName *)

\* the derived names of row n and the normalized candidates of the recorded call
RowNames(n) == worksheetNames(worksheet, n, args.lookupCols)

Candidates ==
  LET c == sanitizedNameValues(args.nameValues) IN {c[i] : i \in 1..Len(c)}

NonEmpty(v) == v # undefined /\ v # <<>>

\* a row whose first and last name can both be derived
Decomposable(n) == NonEmpty(RowNames(n).firstName) /\ NonEmpty(RowNames(n).lastName)

\* the scanned rows with derivable names, each with its names
DecomposableRows ==
  {r \in {[row |-> n, names |-> RowNames(n)] : n \in ScannedRows} :
     NonEmpty(r.names.firstName) /\ NonEmpty(r.names.lastName)}

ExactNameRows ==
  LET cands == Candidates
  IN {r.row : r \in {d \in DecomposableRows :
                       \E c \in cands : /\ c.firstName = d.names.firstName
                                         /\ c.lastName = d.names.lastName}}

SimilarNameRows ==
  LET cands == {c \in Candidates : NonEmpty(c.firstName) /\ NonEmpty(c.lastName)}
  IN {r.row : r \in {d \in DecomposableRows :
                       \E c \in cands :
                         \/ /\ Includes(d.names.lastName, c.lastName)
                            /\ Includes(d.names.firstName, c.firstName)
                         \/ /\ Includes(c.lastName, d.names.lastName)
                            /\ Includes(c.firstName, d.names.firstName)}}

\* C3: when some scanned row has non-empty derived names equal to a candidate's
\* normalized first and last name, findMatchingRowByName returns the first such
\* row, also when an earlier row passes the similar test.
C3_ExactPassFirst ==
  (op = "findMatchingRowByName" /\ ExactNameRows # {}) =>
    result = Lowest(ExactNameRows)

\* an exact row is returned although an earlier scanned row is similar
C3_Witness ==
  /\ op = "findMatchingRowByName"
  /\ ExactNameRows # {}
  /\ result = Lowest(ExactNameRows)
  /\ \E m \in SimilarNameRows : m < result

\* C4: the similar pass runs only when no row matches exactly and
\* findSimilarMatch is true or omitted, and returns the first row that, with all
\* four names non-empty, contains a candidate's names or is contained in them;
\* with findSimilarMatch false and no exact match the result is undefined; a
\* candidate without a first or a last name matches no row in either pass.
C4_SimilarPass ==
  op = "findMatchingRowByName" =>
    /\ ExactNameRows # {} => result \in ExactNameRows
    /\ (ExactNameRows = {} /\ FindSimilarMatch(args.opts)) =>
         result = FirstOf(SimilarNameRows)
    /\ (ExactNameRows = {} /\ ~FindSimilarMatch(args.opts)) => result = NotFound
    /\ (\A c \in Candidates : ~NonEmpty(c.firstName) \/ ~NonEmpty(c.lastName)) =>
         result = NotFound

\* no exact match, and the returned row is similar only because the candidate's
\* names contain the row's names
C4_Witness ==
  /\ op = "findMatchingRowByName"
  /\ ExactNameRows = {}
  /\ result # NotFound
  /\ result \in SimilarNameRows
  /\ \A c \in Candidates :
       ~(/\ NonEmpty(c.firstName) /\ NonEmpty(c.lastName)
         /\ Includes(RowNames(result).lastName, c.lastName)
         /\ Includes(RowNames(result).firstName, c.firstName))

\* a text upper-cased, its characters outside [A-Za-z0-9\s] dropped, trimmed
Folded(s) ==
  IF IsString(s) THEN Trimmed([i \in 1..Len(WithoutSpecials(s)) |->
                                 ToUpperChar(WithoutSpecials(s)[i])])
  ELSE undefined

\* C5: with first and last name columns, a scanned row and a candidate whose
\* names differ only in letter case or in special characters (row "O'D",
\* candidate "OD") match in the exact pass, so a row is returned.
C5_SpecialCharsIgnored ==
  (/\ op = "findMatchingRowByName"
   /\ args.lookupCols.kind = "separate"
   /\ ~FindSimilarMatch(args.opts)
   /\ \E n \in ScannedRows, i \in 1..Len(args.nameValues) :
        /\ NonEmpty(Folded(CellText(worksheet, n, "A")))
        /\ NonEmpty(Folded(CellText(worksheet, n, "B")))
        /\ Folded(CellText(worksheet, n, "A")) = Folded(args.nameValues[i].firstName)
        /\ Folded(CellText(worksheet, n, "B")) = Folded(args.nameValues[i].lastName))
    => result # NotFound

IsLetters(s) == IsString(s) /\ s # <<>> /\ \A i \in 1..Len(s) : IsLower(s[i]) \/ IsUpper(s[i])

\* the combined cell text the claim describes, for candidate c
CombinedText(c, lookupCols) ==
  IF lookupCols.order = "LAST_NAME FIRST_NAME"
  THEN c.lastName \o lookupCols.delimiter \o c.firstName
  ELSE c.firstName \o lookupCols.delimiter \o c.lastName

\* C6: with a combined name column, an explicit delimiter that holds a special
\* character and either order, a scanned row whose cell text is the candidate's
\* two names joined by the delimiter in that order is found by
\* findMatchingRowByName (both definitions of the file).
C6_CombinedNameMatches ==
  (/\ op \in {"findMatchingRowByName", "findMatchingRowByNameEmployee"}
   /\ args.lookupCols.kind = "combined"
   /\ args.lookupCols.delimiter # undefined
   /\ \E i \in 1..Len(args.lookupCols.delimiter) :
        ~IsWordOrSpace(args.lookupCols.delimiter[i]))
    => \A n \in ScannedRows, i \in 1..Len(args.nameValues) :
         (/\ IsLetters(args.nameValues[i].firstName)
          /\ IsLetters(args.nameValues[i].lastName)
          /\ CellText(worksheet, n, args.lookupCols.name)
               = CombinedText(args.nameValues[i], args.lookupCols))
           => (result # NotFound /\ result <= n)

\* C7: a scanned row whose names cannot be derived is never returned by
\* findMatchingRowByName, and the result is the one the call gives on the
\* scanned rows without such rows.
C7_UndecomposableRowsSkipped ==
  op = "findMatchingRowByName" =>
    /\ result # NotFound => Decomposable(result)
    /\ result = findMatchingRowByNameIn(
                  worksheet,
                  SelectSeq(getRows(args.startRowNumber, args.lastRowNumber), Decomposable),
                  args)

\* a row is returned after an earlier scanned row without derivable names
C7_Witness ==
  /\ op = "findMatchingRowByName"
  /\ result # NotFound
  /\ \E m \in ScannedRows : m < result /\ ~Decomposable(m)

\* the row the scan of the recorded call starts at, and the rows it scans
ScanStart ==
  IF op = "findNextRecordSetRowByName" THEN args.startRowNumber ELSE args.currentEmployeeRow

NextScannedRows ==
  LET rows == getRows(ScanStart, args.lastRowNumber) IN {rows[i] : i \in 1..Len(rows)}

\* the name pair the finders of the next record set derive from row n
RecordSetPair(n) == recordSetNames(worksheet, n, args.lookupCols)

PairDecomposable(n) ==
  NonEmpty(RecordSetPair(n).firstName) /\ NonEmpty(RecordSetPair(n).lastName)

\* row n satisfies every supplied per-column condition
SatisfiesConditions(n) ==
  args.conditions.given =>
    \A k \in 1..Len(args.conditions.list) :
      LET c == args.conditions.list[k]
      IN (c.condition = "hasValue" /\ getRow(worksheet, n)[c.col] # null)

\* C19: findNextRecordSetRowByName (and findNextDifferentEmployeeRowByName)
\* returns the first scanned row, in range order from the start row, that has
\* an undecomposable name (whatever the conditions) or whose derived name pair
\* differs from the start row's pair in a component and satisfies every
\* supplied condition; so a start row with a decomposable name is never
\* returned, and a row with another name that fails a condition is skipped.
C19_NextRecordSetRowByName ==
  op \in {"findNextRecordSetRowByName", "findNextDifferentEmployeeRowByName"} =>
    /\ result = FirstOf({n \in NextScannedRows :
                           \/ ~PairDecomposable(n)
                           \/ /\ \/ RecordSetPair(n).firstName # RecordSetPair(ScanStart).firstName
                                 \/ RecordSetPair(n).lastName # RecordSetPair(ScanStart).lastName
                              /\ SatisfiesConditions(n)})
    /\ PairDecomposable(ScanStart) => result # ScanStart

\* the start row has a name, and the other scanned row has another first name
\* but fails a condition: it is skipped and nothing is returned
C19_Witness ==
  /\ op = "findNextRecordSetRowByName"
  /\ args.startRowNumber = 1
  /\ NextScannedRows = {1, 2}
  /\ PairDecomposable(1) /\ PairDecomposable(2)
  /\ RecordSetPair(2).firstName # RecordSetPair(1).firstName
  /\ ~SatisfiesConditions(2)
  /\ result = NotFound

-----------------------------------------------------------------------------
(* helpers.colLetterToNumber *)

\* longest column code handed to colLetterToNumber in SpecCol
MaxLetters == 2

\* c.charCodeAt(0) of a letter: "A" is 65, "a" is 97
CharCode ==
  [c \in UpperSet \cup LowerSet |->
     IF c \in UpperSet THEN 64 + (CHOOSE i \in 1..26 : UpperLetters[i] = c)
     ELSE 96 + (CHOOSE i \in 1..26 : LowerLetters[i] = c)]

\* Math.pow(b, e) for a natural exponent
RECURSIVE Pow(_, _)
Pow(b, e) == IF e = 0 THEN 1 ELSE b * Pow(b, e - 1)

\* the mutation: the letters count from zero
ColDigitFromZero(colLetter, i) == CharCode[colLetter[i + 1]] - 65

\* colLetter.charCodeAt(i) - 64, i counted from 0
ColDigit(colLetter, i) == CharCode[colLetter[i + 1]] - 64

\* the for loop from index i on, colNumber being the sum so far
RECURSIVE ColLoop(_, _, _)
ColLoop(colLetter, i, colNumber) ==
  IF i < Len(colLetter)
  THEN ColLoop(colLetter, i + 1,
               colNumber + ColDigit(colLetter, i) * Pow(26, Len(colLetter) - i - 1))
  ELSE colNumber

colLetterToNumber(colLetter) == ColLoop(colLetter, 0, 0)

-----------------------------------------------------------------------------
(* SpecCol: colLetterToNumber applied to every code up to MaxLetters letters *)

\* the letters of the codes: the upper-case letters and one lower-case letter
ColAlphabet == UpperSet \cup {"a"}

ColCodes == StringsUpTo(ColAlphabet, MaxLetters)

InitCol ==
  /\ worksheet = NoSheet
  /\ op = "init"
  /\ \E c \in ColCodes : args = [colLetter |-> c]
  /\ result = 0

CallColLetterToNumber ==
  /\ op = "init"
  /\ op' = "colLetterToNumber"
  /\ result' = colLetterToNumber(args.colLetter)
  /\ UNCHANGED <<worksheet, args>>

NextCol == CallColLetterToNumber

SpecCol == InitCol /\ [][NextCol]_vars

-----------------------------------------------------------------------------
(* Claims about colLetterToNumber, checked under SpecCol *)

\* the value of a letter as a digit: A is 1, Z is 26
LetterValue(c) == CHOOSE i \in 1..26 : UpperLetters[i] = c

IsUpperCode(s) == s # <<>> /\ \A i \in 1..Len(s) : IsUpper(s[i])

\* the bijective base-26 value of a code, most significant letter first
RECURSIVE Base26Value(_)
Base26Value(s) ==
  IF s = <<>> THEN 0
  ELSE 26 * Base26Value(SubSeq(s, 1, Len(s) - 1)) + LetterValue(s[Len(s)])

\* the code after s in the order A..Z, AA..ZZ, AAA..
RECURSIVE NextCode(_)
NextCode(s) ==
  IF s = <<>> THEN <<"A">>
  ELSE IF s[Len(s)] = "Z" THEN NextCode(SubSeq(s, 1, Len(s) - 1)) \o <<"A">>
       ELSE SubSeq(s, 1, Len(s) - 1) \o <<UpperLetters[LetterValue(s[Len(s)]) + 1]>>

\* C11: for a code of upper-case letters colLetterToNumber gives the bijective
\* base-26 value (A=1 .. Z=26, no zero digit): the letter value for one letter,
\* 26*first + second for two; the code that follows in the order A..Z, AA..ZZ
\* gets the next number, so the mapping is injective and strictly increasing;
\* A is 1, Z 26, AA 27, AZ 52, BA 53, ZZ 702.
C11_BijectiveBase26 ==
  (op = "colLetterToNumber" /\ IsUpperCode(args.colLetter)) =>
    LET c == args.colLetter
    IN /\ result = Base26Value(c)
       /\ Len(c) = 1 => result = LetterValue(c[1])
       /\ Len(c) = 2 => result = 26 * LetterValue(c[1]) + LetterValue(c[2])
       /\ colLetterToNumber(NextCode(c)) = result + 1
       /\ c = <<"A">> => result = 1
       /\ c = <<"Z">> => result = 26
       /\ c = <<"A", "A">> => result = 27
       /\ c = <<"A", "Z">> => result = 52
       /\ c = <<"B", "A">> => result = 53
       /\ c = <<"Z", "Z">> => result = 702

\* the last two-letter code of the first letter: AZ is 52
C11_Witness ==
  /\ op = "colLetterToNumber"
  /\ args.colLetter = <<"A", "Z">>
  /\ result = 52

-----------------------------------------------------------------------------
(* data.findLastRowInRecordSet *)

\* the undefined that findLastRowInRecordSet returns: unlike the matchers it can
\* return the row numbered 0, the row before row 1
UndefinedRow == -1

\* lookupCondition(currentRowValue); "endsWithLookupValue" is the callback that
\* getRowsOfMatchingRecordSet builds from its lookupValue
ApplyRecordSetCondition(a, value) ==
  IF a.lookupCondition = "endsWithLookupValue"
  THEN EndsWith(value, a.lookupValue)
  ELSE ApplyCondition(a.lookupCondition, value)

\* the callback of rows.find: row n is the first row past the record set
nextRecordSetStarts(ws, n, a) ==
  LET currentRowValue == sanitizeText(CellText(ws, n, a.lookupCol), OptsOmitted)
  IN IF a.lookupCondition # "absent"
     THEN \/ ~Truthy(currentRowValue)
          \/ ~ApplyRecordSetCondition(a, currentRowValue)
     ELSE currentRowValue # a.lookupValue

\* the mutation: the row found is returned, not the row before it
findLastRowInRecordSetNoStepBack(ws, a) ==
  LET rows == getRows(a.startRowNumber, a.lastRowNumber - a.startRowNumber + 1)
      nextMatchingRow == Find(rows, [i \in 1..Len(rows) |->
                                      nextRecordSetStarts(ws, rows[i], a)])
  IN IF rows = NoRows THEN UndefinedRow
     ELSE IF nextMatchingRow # NotFound THEN nextMatchingRow
     ELSE a.lastRowNumber

\* the number of the row returned, UndefinedRow for undefined
findLastRowInRecordSet(ws, a) ==
  LET rows == getRows(a.startRowNumber, a.lastRowNumber - a.startRowNumber + 1)
      nextMatchingRow == Find(rows, [i \in 1..Len(rows) |->
                                      nextRecordSetStarts(ws, rows[i], a)])
  IN IF rows = NoRows THEN UndefinedRow
     ELSE IF nextMatchingRow # NotFound THEN nextMatchingRow - 1
     ELSE a.lastRowNumber

-----------------------------------------------------------------------------
(* data.getRowsOfMatchingRecordSet *)

\* lookupCondition ?? (opts?.findSimilarMatchWithLastDigits ? endsWith : undefined)
RecordSetCondition(a) ==
  IF a.lookupCondition # "absent" THEN a.lookupCondition
  ELSE IF SuffixOption(a.opts) THEN "endsWithLookupValue"
  ELSE "absent"

\* the list of row numbers returned, NoRows for undefined
getRowsOfMatchingRecordSet(ws, a) ==
  LET startRow == findMatchingRowById(ws,
                    [startRowNumber |-> a.startRowNumber,
                     lastRowNumber |-> a.lastRowNumber,
                     lookupCol |-> a.lookupCol,
                     lookupCondition |-> a.lookupCondition,
                     id |-> a.lookupValue,
                     opts |-> a.opts])
      lastRow == findLastRowInRecordSet(ws,
                    [startRowNumber |-> startRow,
                     lastRowNumber |-> a.lastRowNumber,
                     lookupCol |-> a.lookupCol,
                     lookupValue |-> a.lookupValue,
                     lookupCondition |-> RecordSetCondition(a)])
  IN IF startRow # NotFound /\ lastRow # UndefinedRow
     THEN getRows(startRow, lastRow - startRow + 1)
     ELSE NoRows

-----------------------------------------------------------------------------
(* data.findNextRecordSetRowById *)

\* the callback of rows.find
nextRecordSetRowByIdTest(ws, n, a) ==
  LET currentRowId == sanitizeText(CellText(ws, n, a.lookupCol), OptsOmitted)
  IN IF ~Truthy(currentRowId) THEN TRUE
     ELSE /\ currentRowId = a.id
          /\ IF SuffixOption(a.opts) THEN EndsWith(currentRowId, a.id) ELSE TRUE

findNextRecordSetRowById(ws, a) ==
  LET rows == getRows(a.startRowNumber, a.lastRowNumber)
  IN IF rows = NoRows THEN NotFound
     ELSE Find(rows, [i \in 1..Len(rows) |-> nextRecordSetRowByIdTest(ws, rows[i], a)])

-----------------------------------------------------------------------------
(* SpecRecordSet: the record-set finders called on a worksheet of identifiers *)

\* the lookupValue argument: "", "1", "A1" and "a-1" (normalized "A1")
LookupValues == {<<>>, <<"1">>, <<"A", "1">>, <<"a", "-", "1">>}

InitRecordSet ==
  /\ worksheet \in IdSheets
  /\ op = "init"
  /\ args = <<>>
  /\ result = NotFound

CallFindLastRowInRecordSet ==
  /\ op = "init"
  /\ \E start \in 1..MaxRows, last \in 0..MaxRows, value \in LookupValues,
        cond \in LookupConditions :
       /\ args' = [startRowNumber |-> start, lastRowNumber |-> last,
                   lookupCol |-> "A", lookupValue |-> value, lookupCondition |-> cond]
       /\ result' = findLastRowInRecordSet(worksheet, args')
  /\ op' = "findLastRowInRecordSet"
  /\ UNCHANGED worksheet

CallGetRowsOfMatchingRecordSet ==
  /\ op = "init"
  /\ \E start \in 1..MaxRows, last \in 0..MaxRows, value \in LookupValues,
        cond \in LookupConditions, o \in ByIdOpts :
       /\ args' = [startRowNumber |-> start, lastRowNumber |-> last,
                   lookupCol |-> "A", lookupValue |-> value, lookupCondition |-> cond,
                   opts |-> o]
       /\ result' = getRowsOfMatchingRecordSet(worksheet, args')
  /\ op' = "getRowsOfMatchingRecordSet"
  /\ UNCHANGED worksheet

CallFindNextRecordSetRowById ==
  /\ op = "init"
  /\ \E start \in 1..MaxRows, last \in 0..MaxRows, id \in LookupValues, o \in ByIdOpts :
       /\ args' = [startRowNumber |-> start, lastRowNumber |-> last,
                   lookupCol |-> "A", id |-> id, opts |-> o]
       /\ result' = findNextRecordSetRowById(worksheet, args')
  /\ op' = "findNextRecordSetRowById"
  /\ UNCHANGED worksheet

NextRecordSet ==
  \/ CallFindLastRowInRecordSet
  \/ CallGetRowsOfMatchingRecordSet
  \/ CallFindNextRecordSetRowById

SpecRecordSet == InitRecordSet /\ [][NextRecordSet]_vars

-----------------------------------------------------------------------------
(* Claims about the record-set finders, checked under SpecRecordSet *)

\* the rows startRowNumber..lastRowNumber of the recorded call
RangeRows == args.startRowNumber..args.lastRowNumber

\* row n does not belong to the record set of the recorded lookup value
LeavesRecordSet(n) ==
  IF args.lookupCondition # "absent"
  THEN \/ ~NonEmpty(NormalizedLookup(n))
       \/ ~ApplyCondition(args.lookupCondition, NormalizedLookup(n))
  ELSE NormalizedLookup(n) # args.lookupValue

\* C12: findLastRowInRecordSet scans rows startRowNumber..lastRowNumber for the
\* first row whose normalized lookup value differs from the lookup value (with a
\* lookupCondition: is empty or fails it) and returns the row numbered one less;
\* when the range holds no such row it returns the row numbered lastRowNumber.
\* (A range without rows, lastRowNumber < startRowNumber, gives undefined.)
C12_LastRowOfRecordSet ==
  op = "findLastRowInRecordSet" =>
    LET leaving == {n \in RangeRows : LeavesRecordSet(n)}
    IN IF RangeRows = {} THEN result = UndefinedRow
       ELSE IF leaving # {} THEN result = Lowest(leaving) - 1
       ELSE result = args.lastRowNumber

\* the record set of the start row ends inside the range: the rows from the
\* start row on hold the lookup value and a later row of the range does not
C12_Witness ==
  /\ op = "findLastRowInRecordSet"
  /\ args.lookupCondition = "absent"
  /\ args.startRowNumber = 1
  /\ args.lastRowNumber = MaxRows
  /\ ~LeavesRecordSet(1) /\ ~LeavesRecordSet(2)
  /\ \E n \in RangeRows : LeavesRecordSet(n)
  /\ result = 2

\* the rows of the range whose normalized lookup value is the normalized,
\* non-empty lookupValue
MatchingRows ==
  LET target == sanitizeText(args.lookupValue, OptsOmitted)
  IN {n \in RangeRows : NonEmpty(target) /\ NormalizedLookup(n) = target}

\* C13: without lookupCondition and suffix option, when some row of the range
\* has the normalized lookupValue as its normalized lookup value,
\* getRowsOfMatchingRecordSet returns a non-empty list that begins with the
\* first such row, is contiguous by row number, holds only rows with the first
\* row's normalized value, and is maximal (the next row is outside the range or
\* has another value); when no row matches it returns undefined.
C13_MaximalContiguousRecordSet ==
  (/\ op = "getRowsOfMatchingRecordSet"
   /\ args.lookupCondition = "absent"
   /\ ~SuffixOption(args.opts))
    => IF MatchingRows # {}
       THEN /\ result # NoRows
            /\ result[1] = Lowest(MatchingRows)
            /\ \A i \in 1..(Len(result) - 1) : result[i + 1] = result[i] + 1
            /\ \A i \in 1..Len(result) :
                 NormalizedLookup(result[i]) = NormalizedLookup(result[1])
            /\ LET next == result[Len(result)] + 1
               IN \/ next \notin RangeRows
                  \/ NormalizedLookup(next) # NormalizedLookup(result[1])
       ELSE result = NoRows

\* the scanned rows that start another record set than the one of the given id
NextRecordSetRows ==
  {n \in ScannedRows : ~NonEmpty(NormalizedLookup(n)) \/ NormalizedLookup(n) # args.id}

\* C18: findNextRecordSetRowById returns the first scanned row whose id cell is
\* empty or whose normalized id differs from the given id; a row whose
\* normalized id equals the given id is never returned; when every scanned row
\* has the given id the result is undefined.
C18_NextRecordSetRowById ==
  op = "findNextRecordSetRowById" =>
    /\ result = FirstOf(NextRecordSetRows)
    /\ (result # NotFound /\ NonEmpty(NormalizedLookup(result)))
         => NormalizedLookup(result) # args.id
    /\ (\A n \in ScannedRows :
          NonEmpty(NormalizedLookup(n)) /\ NormalizedLookup(n) = args.id)
         => result = NotFound

-----------------------------------------------------------------------------
(* data.findFirstRowOfDataGroup and data.findLastRowOfDataGroup *)

\* the mutation: the identifierCondition is not consulted
InDataGroupIgnoringCondition(cond, identifierValue) == Truthy(identifierValue)

\* the mutation: an identifierCondition is asked about empty values too
InDataGroupAskingAboutEmpty(cond, identifierValue) ==
  IF cond # "absent"
  THEN ApplyCondition(cond, identifierValue)
  ELSE Truthy(identifierValue) /\ identifierValue # <<>>

\* the test of the while loops: the row of identifierValue belongs to the group
InDataGroup(cond, identifierValue) ==
  IF cond # "absent"
  THEN IF Truthy(identifierValue) THEN ApplyCondition(cond, identifierValue) ELSE FALSE
  ELSE Truthy(identifierValue) /\ identifierValue # <<>>

\* the while loop of findFirstRowOfDataGroup from rowNumber on: the rowNumber
\* it ends with
RECURSIVE firstRowLoop(_, _, _)
firstRowLoop(ws, rowNumber, a) ==
  IF InDataGroup(a.identifierCondition, CellText(ws, rowNumber, a.identifierCol))
  THEN firstRowLoop(ws, rowNumber - 1, a)
  ELSE rowNumber

findFirstRowOfDataGroup(ws, a) == firstRowLoop(ws, a.startRowNumber, a) + 1

\* the while loop of findLastRowOfDataGroup
RECURSIVE lastRowLoop(_, _, _)
lastRowLoop(ws, rowNumber, a) ==
  IF InDataGroup(a.identifierCondition, CellText(ws, rowNumber, a.identifierCol))
  THEN lastRowLoop(ws, rowNumber + 1, a)
  ELSE rowNumber

findLastRowOfDataGroup(ws, a) == lastRowLoop(ws, a.startRowNumber, a) - 1

-----------------------------------------------------------------------------
(* data.createNewRowAfterRecordSet and data.createNewRowAfterDataGroup *)

\* the mutation: only a null cell ends the scan, an empty string does not
Populated_NullOnly(value) == value # null

\* prepCellFieldValue !== null && prepCellFieldValue !== ""
Populated(value) == value # null /\ value # <<>>

\* the while loop from prepRowNumber on: the prepRowNumber it ends with
RECURSIVE prepRowLoop(_, _, _)
prepRowLoop(ws, prepRowNumber, col) ==
  IF Populated(getRow(ws, prepRowNumber)[col])
  THEN prepRowLoop(ws, prepRowNumber + 1, col)
  ELSE prepRowNumber

\* worksheet.insertRow(n, [], "i+"): the rows from n on move down by one and
\* row n is a new row without values
insertRow(ws, n) ==
  LET stored == [i \in 1..(IF Len(ws) < n - 1 THEN n - 1 ELSE Len(ws)) |-> getRow(ws, i)]
  IN SubSeq(stored, 1, n - 1) \o <<EmptyRow>> \o SubSeq(stored, n, Len(stored))

\* the mutation: the cells of the new row get a blank, not the empty string
ClearRowWithBlank(ws, n) == [ws EXCEPT ![n] = [c \in Columns |-> <<" ">>]]

\* newRow.eachCell({ includeEmpty: true }, (cell) => { cell.value = ""; })
ClearRow(ws, n) == [ws EXCEPT ![n] = [c \in Columns |-> <<>>]]

\* the worksheet after the call and the number of the row returned
createNewRowAfterRecordSet(ws, a) ==
  LET previousRecordSet == prepRowLoop(ws, a.startRowNumber, a.lookupCol) - 1
  IN [worksheet |-> ClearRow(insertRow(ws, previousRecordSet + 1), previousRecordSet + 1),
      newRow |-> previousRecordSet + 1]

createNewRowAfterDataGroup(ws, a) ==
  LET unknownEmployeePrepLastEmployeeRow ==
        prepRowLoop(ws, a.startRowNumber, a.identifierCol) - 1
  IN [worksheet |-> ClearRow(insertRow(ws, unknownEmployeePrepLastEmployeeRow + 1),
                             unknownEmployeePrepLastEmployeeRow + 1),
      newRow |-> unknownEmployeePrepLastEmployeeRow + 1]

-----------------------------------------------------------------------------
(* SpecGroup: the data-group finders called once, and the row inserters      *)
(* called up to MaxInserts times, on a worksheet of identifier cells         *)

\* rows of the worksheet that hold data before the first call
MaxGroupRows == 4

\* most rows inserted in one behaviour
MaxInserts == 2

\* cell values of the identifier column: null, "", "1" and "B"
GroupCells == {null, <<>>, <<"1">>, <<"B">>}

\* the digit of a row number
RowMark == [n \in 0..9 |-> <<"0", "1", "2", "3", "4", "5", "6", "7", "8", "9">>[n + 1]]

\* column A holds the identifier, column B the number the row has at first
GroupSheets ==
  {[n \in 1..MaxGroupRows |-> [A |-> ids[n], B |-> <<RowMark[n]>>]] :
     ids \in [1..MaxGroupRows -> GroupCells]}

InitGroup ==
  /\ worksheet \in GroupSheets
  /\ op = "init"
  /\ args = <<>>
  /\ result = NotFound

CallFindFirstRowOfDataGroup ==
  /\ op = "init"
  /\ \E start \in 1..MaxGroupRows, cond \in LookupConditions :
       /\ args' = [startRowNumber |-> start, identifierCol |-> "A",
                   identifierCondition |-> cond]
       /\ result' = findFirstRowOfDataGroup(worksheet, args')
  /\ op' = "findFirstRowOfDataGroup"
  /\ UNCHANGED worksheet

CallFindLastRowOfDataGroup ==
  /\ op = "init"
  /\ \E start \in 1..MaxGroupRows, cond \in LookupConditions :
       /\ args' = [startRowNumber |-> start, identifierCol |-> "A",
                   identifierCondition |-> cond]
       /\ result' = findLastRowOfDataGroup(worksheet, args')
  /\ op' = "findLastRowOfDataGroup"
  /\ UNCHANGED worksheet

\* the inserters are called on the worksheet as the calls before left it
CanInsert ==
  /\ op \in {"init", "createNewRowAfterRecordSet", "createNewRowAfterDataGroup"}
  /\ Len(worksheet) < MaxGroupRows + MaxInserts

CallCreateNewRowAfterRecordSet ==
  /\ CanInsert
  /\ \E start \in 1..MaxGroupRows :
       /\ args' = [startRowNumber |-> start, lookupCol |-> "A"]
       /\ worksheet' = createNewRowAfterRecordSet(worksheet, args').worksheet
       /\ result' = createNewRowAfterRecordSet(worksheet, args').newRow
  /\ op' = "createNewRowAfterRecordSet"

CallCreateNewRowAfterDataGroup ==
  /\ CanInsert
  /\ \E start \in 1..MaxGroupRows :
       /\ args' = [startRowNumber |-> start, identifierCol |-> "A"]
       /\ worksheet' = createNewRowAfterDataGroup(worksheet, args').worksheet
       /\ result' = createNewRowAfterDataGroup(worksheet, args').newRow
  /\ op' = "createNewRowAfterDataGroup"

NextGroup ==
  \/ CallFindFirstRowOfDataGroup
  \/ CallFindLastRowOfDataGroup
  \/ CallCreateNewRowAfterRecordSet
  \/ CallCreateNewRowAfterDataGroup

SpecGroup == InitGroup /\ [][NextGroup]_vars

-----------------------------------------------------------------------------
(* Claims about the data-group finders and the inserters, under SpecGroup *)

\* row n passes the group test of the recorded call
GroupTest(n) ==
  LET v == CellText(worksheet, n, args.identifierCol)
  IN IF args.identifierCondition # "absent"
     THEN NonEmpty(v) /\ ApplyCondition(args.identifierCondition, v)
     ELSE NonEmpty(v)

\* C14: for a seed row whose identifier cell passes the group test (the
\* identifierCondition if given, else non-empty), findFirstRowOfDataGroup
\* returns the smallest f <= seed and findLastRowOfDataGroup the largest
\* l >= seed such that every row between it and the seed passes the test, while
\* row f-1 and row l+1 fail it.
C14_MaximalGroupAroundSeed ==
  (/\ op \in {"findFirstRowOfDataGroup", "findLastRowOfDataGroup"}
   /\ GroupTest(args.startRowNumber))
    => IF op = "findFirstRowOfDataGroup"
       THEN /\ result <= args.startRowNumber
            /\ \A n \in result..args.startRowNumber : GroupTest(n)
            /\ ~GroupTest(result - 1)
       ELSE /\ result >= args.startRowNumber
            /\ \A n \in args.startRowNumber..result : GroupTest(n)
            /\ ~GroupTest(result + 1)

\* the seed is the last row of a group that an identifierCondition delimits:
\* the row before the group holds a value, but one that fails the condition
C14_Witness ==
  /\ op = "findFirstRowOfDataGroup"
  /\ args.identifierCondition = "startsWithB"
  /\ GroupTest(args.startRowNumber)
  /\ result < args.startRowNumber
  /\ result > 1
  /\ NonEmpty(CellText(worksheet, result - 1, "A"))

\* the column an inserter call scans
InsertCol(a) == IF "lookupCol" \in DOMAIN a THEN a.lookupCol ELSE a.identifierCol

\* the smallest row number >= start whose cell in column col is null or ""
FirstUnpopulated(ws, start, col) ==
  CHOOSE u \in start..(Len(ws) + 1) :
    /\ getRow(ws, u)[col] \in {null, <<>>}
    /\ \A n \in start..(u - 1) : getRow(ws, n)[col] \notin {null, <<>>}

\* C15: createNewRowAfterRecordSet (and createNewRowAfterDataGroup), with u the
\* smallest row number >= startRowNumber whose lookupCol cell is null or "":
\* the call returns the row at u, a new row whose cells all hold an empty value;
\* every row numbered n >= u before is numbered n+1 after with the same cells,
\* and every row numbered < u is unchanged.
C15_NewRowAfterRecordSet ==
  [][op' \in {"createNewRowAfterRecordSet", "createNewRowAfterDataGroup"} =>
       LET u == FirstUnpopulated(worksheet, args'.startRowNumber, InsertCol(args'))
       IN /\ result' = u
          /\ \A c \in Columns : getRow(worksheet', u)[c] \in {null, <<>>}
          /\ \A n \in u..(Len(worksheet) + 1) :
               getRow(worksheet', n + 1) = getRow(worksheet, n)
          /\ \A n \in 1..(u - 1) : getRow(worksheet', n) = getRow(worksheet, n)
    ]_vars

\* a group in rows 1..2 got its new row at 3, and the populated row that was
\* row 4 is now row 5
C15_Witness ==
  /\ op = "createNewRowAfterRecordSet"
  /\ args.startRowNumber = 1
  /\ result = 3
  /\ Len(worksheet) = MaxGroupRows + 1
  /\ \A c \in Columns : worksheet[3][c] = <<>>
  /\ worksheet[5] = [A |-> <<"1">>, B |-> <<"4">>]
  /\ worksheet[4].B = <<"3">>

-----------------------------------------------------------------------------
(* validation.validateColumns: the header row is row 1 of the worksheet, a   *)
(* cell of it the record of its value and of its rendered text               *)

\* typeof cell.value === "string" ? cell.value : cell.text
HeaderCellText(cell) == IF IsString(cell.value) THEN cell.value ELSE cell.text

NoLabel == <<"(", "N", "o", " ", "l", "a", "b", "e", "l", ")">>

\* the mutation: an empty label is put into the message as it is
ExpectedLabelAsGiven(label) == label

\* columnToBeValidated.label === "" ? "(No label)" : columnToBeValidated.label
ExpectedLabel(label) == IF label = <<>> THEN NoLabel ELSE label

\* the template literal of the message: the fixed texts and the column
\* designator are one element each, the label and the header text their
\* characters
ValidationMessage(columnToBeValidated, cellText) ==
  <<"TEMPLATE VALIDATION ERROR: Expected column ">>
    \o ExpectedLabel(columnToBeValidated.label)
    \o <<" in column ">> \o <<columnToBeValidated.column>>
    \o <<" but found ">> \o cellText

\* columnsToBeValidated.map(...) from the i-th column on: the error thrown, if
\* any, and the number of columns the callback was called for
RECURSIVE validateColumnsFrom(_, _, _)
validateColumnsFrom(headerRow, columnsToBeValidated, i) ==
  IF i > Len(columnsToBeValidated)
  THEN [thrown |-> FALSE, message |-> <<>>, examined |-> i - 1]
  ELSE LET cellText == HeaderCellText(headerRow[columnsToBeValidated[i].column])
       IN IF sanitizeText(cellText, OptsOmitted)
               # sanitizeText(columnsToBeValidated[i].label, OptsOmitted)
          THEN [thrown |-> TRUE,
                message |-> ValidationMessage(columnsToBeValidated[i], cellText),
                examined |-> i]
          ELSE validateColumnsFrom(headerRow, columnsToBeValidated, i + 1)

validateColumns(headerRow, columnsToBeValidated) ==
  validateColumnsFrom(headerRow, columnsToBeValidated, 1)

-----------------------------------------------------------------------------
(* SpecValidate: validateColumns called on a header row *)

\* most columns in columnsToBeValidated
MaxColumns == 2

\* header cells: "Ab", "a-b" (normalized "AB"), a value that is no string and
\* renders as "Ab", an empty cell, and "C"
HeaderCells ==
  {[value |-> <<"A", "b">>, text |-> <<"A", "b">>],
   [value |-> <<"a", "-", "b">>, text |-> <<"a", "-", "b">>],
   [value |-> NonText, text |-> <<"A", "b">>],
   [value |-> null, text |-> <<>>],
   [value |-> <<"C">>, text |-> <<"C">>]}

HeaderLabels == {<<>>, <<"A", "b">>, <<"C">>}

ColumnsToBeValidated ==
  UNION {[1..n -> [column : Columns, label : HeaderLabels]] : n \in 0..MaxColumns}

InitValidate ==
  /\ worksheet \in [1..1 -> [Columns -> HeaderCells]]
  /\ op = "init"
  /\ args = <<>>
  /\ result = NotFound

CallValidateColumns ==
  /\ op = "init"
  /\ \E cols \in ColumnsToBeValidated :
       /\ args' = [columnsToBeValidated |-> cols]
       /\ result' = validateColumns(worksheet[1], cols)
  /\ op' = "validateColumns"
  /\ UNCHANGED worksheet

NextValidate == CallValidateColumns

SpecValidate == InitValidate /\ [][NextValidate]_vars

-----------------------------------------------------------------------------
(* Claims about validateColumns, checked under SpecValidate *)

\* the header text of the i-th configured column, as the cell gives it
ActualHeaderText(i) ==
  LET cell == worksheet[1][args.columnsToBeValidated[i].column]
  IN IF IsString(cell.value) THEN cell.value ELSE cell.text

\* the configured columns whose normalized header text is not the normalized label
MismatchedColumns ==
  {i \in 1..Len(args.columnsToBeValidated) :
     sanitizeText(ActualHeaderText(i), OptsOmitted)
       # sanitizeText(args.columnsToBeValidated[i].label, OptsOmitted)}

\* the message contains the text part
InMessage(part, message) ==
  \E k \in 1..(Len(message) - Len(part) + 1) :
    \A j \in 1..Len(part) : message[k + j - 1] = part[j]

\* C16: validateColumns goes through the configured columns in list order and
\* throws exactly when some column's header text (cell.value if a string, else
\* cell.text), normalized, differs from the normalized label; the error is for
\* the first such column, no later column is examined, and the message holds
\* the label (or "(No label)" for the empty label), the column designator and
\* the header text as it is; when every column matches it returns.
C16_ThrowsOnFirstMismatch ==
  op = "validateColumns" =>
    IF MismatchedColumns = {}
    THEN ~result.thrown /\ result.examined = Len(args.columnsToBeValidated)
    ELSE LET first == Lowest(MismatchedColumns)
             column == args.columnsToBeValidated[first]
         IN /\ result.thrown
            /\ result.examined = first
            /\ InMessage(IF column.label = <<>> THEN NoLabel ELSE column.label,
                         result.message)
            /\ InMessage(<<column.column>>, result.message)
            /\ InMessage(ActualHeaderText(first), result.message)

\* the first column matches through normalization, the second has the empty
\* label and a header that is not empty: the error names "(No label)"
C16_Witness ==
  /\ op = "validateColumns"
  /\ Len(args.columnsToBeValidated) = 2
  /\ MismatchedColumns = {2}
  /\ ActualHeaderText(1) # args.columnsToBeValidated[1].label
  /\ args.columnsToBeValidated[2].label = <<>>
  /\ result.thrown
  /\ InMessage(NoLabel, result.message)

-----------------------------------------------------------------------------
(* data.updateCell: a cell is the record of its value, style, numFmt and     *)
(* note; a value that is no text is the pair of its kind and its literal     *)

NumberZero == <<"number", "0">>
BooleanFalse == <<"boolean", "false">>

\* JavaScript truthiness of a cell value
TruthyValue(v) == v \notin {null, undefined, <<>>, NumberZero, BooleanFalse}

\* truthiness of a string option: set and not ""
OptionTruthy(s) == s # "absent" /\ s # ""

NoNote == [text |-> "absent", editAs |-> "absent"]

\* { ...style, ...over }
SpreadOver(style, over) ==
  [k \in DOMAIN style \cup DOMAIN over |-> IF k \in DOMAIN over THEN over[k] ELSE style[k]]

\* opts?.overwrite ?? true
Overwrite(opts) == IF opts.given /\ opts.overwrite # "absent" THEN opts.overwrite = "true" ELSE TRUE

\* the mutation: the fill of fillColor is set after the fill of removeFillColor
updateCellFillAfterRemoval(cell, value, opts) ==
  LET c1 == [cell EXCEPT !.value = value]
      c2 == IF opts.given /\ opts.style.given
            THEN [c1 EXCEPT !.style = SpreadOver(c1.style, opts.style.keys)]
            ELSE c1
      c3 == IF opts.given /\ opts.removeFillColor = "true"
            THEN [c2 EXCEPT !.style =
                    SpreadOver(c2.style,
                               [fill |-> [type |-> "pattern", pattern |-> "none",
                                          fgColor |-> "absent"]])]
            ELSE c2
      c4 == IF opts.given /\ OptionTruthy(opts.fillColor)
            THEN [c3 EXCEPT !.style =
                    SpreadOver(c3.style,
                               [fill |-> [type |-> "pattern", pattern |-> "solid",
                                          fgColor |-> opts.fillColor]])]
            ELSE c3
      c5 == IF opts.given /\ OptionTruthy(opts.numFmt)
            THEN [c4 EXCEPT !.numFmt = opts.numFmt]
            ELSE c4
      c6 == IF opts.given /\ OptionTruthy(opts.note)
            THEN [c5 EXCEPT !.note = [text |-> opts.note, editAs |-> "oneCells"]]
            ELSE c5
  IN IF ~Overwrite(opts) /\ TruthyValue(cell.value) /\ cell.value # <<>>
     THEN cell
     ELSE c6

\* the cell after updateCell(cell, value, opts)
updateCell(cell, value, opts) ==
  LET c1 == [cell EXCEPT !.value = value]
      c2 == IF opts.given /\ opts.style.given
            THEN [c1 EXCEPT !.style = SpreadOver(c1.style, opts.style.keys)]
            ELSE c1
      c3 == IF opts.given /\ OptionTruthy(opts.fillColor)
            THEN [c2 EXCEPT !.style =
                    SpreadOver(c2.style,
                               [fill |-> [type |-> "pattern", pattern |-> "solid",
                                          fgColor |-> opts.fillColor]])]
            ELSE c2
      c4 == IF opts.given /\ opts.removeFillColor = "true"
            THEN [c3 EXCEPT !.style =
                    SpreadOver(c3.style,
                               [fill |-> [type |-> "pattern", pattern |-> "none",
                                          fgColor |-> "absent"]])]
            ELSE c3
      c5 == IF opts.given /\ OptionTruthy(opts.numFmt)
            THEN [c4 EXCEPT !.numFmt = opts.numFmt]
            ELSE c4
      c6 == IF opts.given /\ OptionTruthy(opts.note)
            THEN [c5 EXCEPT !.note = [text |-> opts.note, editAs |-> "oneCells"]]
            ELSE c5
  IN IF ~Overwrite(opts) /\ TruthyValue(cell.value) /\ cell.value # <<>>
     THEN cell
     ELSE c6

-----------------------------------------------------------------------------
(* SpecCell: updateCell called on the one cell of a worksheet *)

\* cell values: empty, "", a text, the numbers 0 and 5, the booleans, a date
\* and a formula with its result
CellValues ==
  {null, <<>>, <<"x">>, NumberZero, <<"number", "5">>, BooleanFalse,
   <<"boolean", "true">>, <<"date", "2024-01-01">>, <<"formula", "=A1">>}

GreenFill == [type |-> "pattern", pattern |-> "solid", fgColor |-> "FF00FF00"]

NoStyleKeys == [k \in {} |-> "absent"]

CellStyles ==
  {NoStyleKeys, [font |-> "bold"], [font |-> "bold", fill |-> GreenFill]}

Cells ==
  [value : CellValues, style : CellStyles, numFmt : {"absent", "0.00"},
   note : {NoNote, [text |-> "old", editAs |-> "oneCells"]}]

\* opts.style: left out, or an object with the keys it names
StyleOptions ==
  {[given |-> FALSE, keys |-> NoStyleKeys],
   [given |-> TRUE, keys |-> [font |-> "italic"]],
   [given |-> TRUE, keys |-> [fill |-> GreenFill]]}

UpdateCellOpts ==
  {[given |-> FALSE]} \cup
  [given : {TRUE}, overwrite : OptionValues, style : StyleOptions,
   fillColor : {"absent", "", "FFFF0000"}, removeFillColor : OptionValues,
   numFmt : {"absent", "", "0%"}, note : {"absent", "", "new"}]

\* the value argument: a text, or left out
ValueArgs == {<<"y">>, undefined}

InitCell ==
  /\ worksheet \in [1..1 -> [{"A"} -> Cells]]
  /\ op = "init"
  /\ args = <<>>
  /\ result = NotFound

CallUpdateCell ==
  /\ op = "init"
  /\ \E value \in ValueArgs, o \in UpdateCellOpts :
       /\ args' = [value |-> value, opts |-> o]
       /\ worksheet' = [worksheet EXCEPT ![1].A = updateCell(worksheet[1].A, value, o)]
  /\ op' = "updateCell"
  /\ UNCHANGED result

NextCell == CallUpdateCell

SpecCell == InitCell /\ [][NextCell]_vars

-----------------------------------------------------------------------------
(* Claims about updateCell, checked under SpecCell *)

\* the cell holds a value: anything but null, undefined and the empty string
HoldsValue(cell) == cell.value \notin {null, undefined, <<>>}

\* C17: updateCell with overwrite false on a cell that holds a value of any
\* kind (text, number, boolean, date, formula: anything but null, undefined and
\* "") leaves the cell's value, style, fill, number format and note as they
\* were, whatever the other options; when the cell is empty, or overwrite is
\* true or omitted, the cell's value becomes the supplied value.
C17_NoOverwriteKeepsCell ==
  [][op' = "updateCell" =>
       IF /\ args'.opts.given
          /\ args'.opts.overwrite = "false"
          /\ HoldsValue(worksheet[1].A)
       THEN worksheet'[1].A = worksheet[1].A
       ELSE worksheet'[1].A.value = args'.value
    ]_vars

\* the options of the recorded call, each as the claim reads it
StyleKeysGiven(o) == IF o.given /\ o.style.given THEN o.style.keys ELSE NoStyleKeys
FillColorGiven(o) == o.given /\ o.fillColor \notin {"absent", ""}
RemoveFillGiven(o) == o.given /\ o.removeFillColor = "true"
NumFmtGiven(o) == o.given /\ o.numFmt \notin {"absent", ""}
NoteGiven(o) == o.given /\ o.note \notin {"absent", ""}

\* C24: when updateCell may write (overwrite true or omitted, or the cell
\* empty), the effects apply in the order value, style merge, fillColor,
\* removeFillColor, numFmt, note: the style option is merged over the style the
\* cell has, so the keys it does not name are kept; with fillColor and
\* removeFillColor both given the fill ends as the pattern "none"; numFmt and
\* note stay as they were when their option is absent or "".
C24_OptionOrder ==
  [][(/\ op' = "updateCell"
      /\ \/ ~args'.opts.given
         \/ args'.opts.overwrite # "false"
         \/ ~HoldsValue(worksheet[1].A)) =>
       LET before == worksheet[1].A
           after == worksheet'[1].A
           o == args'.opts
           named == StyleKeysGiven(o)
       IN /\ after.value = args'.value
          /\ \A k \in DOMAIN before.style \ {"fill"} :
               /\ k \in DOMAIN after.style
               /\ after.style[k] = IF k \in DOMAIN named THEN named[k] ELSE before.style[k]
          /\ \A k \in DOMAIN named : k \in DOMAIN after.style
          /\ IF RemoveFillGiven(o)
             THEN after.style.fill.pattern = "none"
             ELSE IF FillColorGiven(o)
             THEN /\ after.style.fill.pattern = "solid"
                  /\ after.style.fill.fgColor = o.fillColor
             ELSE IF "fill" \in DOMAIN named
             THEN after.style.fill = named.fill
             ELSE IF "fill" \in DOMAIN before.style
             THEN after.style.fill = before.style.fill
             ELSE "fill" \notin DOMAIN after.style
          /\ after.numFmt = IF NumFmtGiven(o) THEN o.numFmt ELSE before.numFmt
          /\ IF NoteGiven(o) THEN after.note.text = o.note ELSE after.note = before.note
    ]_vars

\* a bold green cell with a note was written with an italic font, a fill
\* color and the removal of the fill, the numFmt left out and the note "": the
\* font is italic, the fill is the pattern "none" and the note is the old one
C24_Witness ==
  /\ op = "updateCell"
  /\ args.opts.given
  /\ args.opts.style.given /\ "font" \in DOMAIN args.opts.style.keys
  /\ args.opts.fillColor = "FFFF0000"
  /\ args.opts.removeFillColor = "true"
  /\ args.opts.numFmt = "absent"
  /\ args.opts.note = ""
  /\ worksheet[1].A.value = args.value
  /\ worksheet[1].A.style.font = "italic"
  /\ worksheet[1].A.style.fill.pattern = "none"
  /\ worksheet[1].A.numFmt = "0.00"
  /\ worksheet[1].A.note.text = "old"

-----------------------------------------------------------------------------
(* SpecCalls: any sequence of calls of the matchers, the finders,            *)
(* validateColumns and createNewRowAfterRecordSet on one worksheet           *)

\* rows of the worksheet that hold data before the first call
MaxCallRows == 2

\* a row of a person, a row of an identifier, and a row without values
CallRows ==
  {[A |-> Jo, B |-> Doe], [A |-> <<"1">>, B |-> <<"1">>], [A |-> null, B |-> null]}

\* the id and lookupValue arguments: "1" and "JO"
CallIds == {<<"1">>, <<"J", "O">>}

\* the header row that validateColumns is handed: row 1, each cell with its
\* value and the text it renders as
HeaderRowOf(ws) ==
  [c \in Columns |->
     [value |-> getRow(ws, 1)[c],
      text |-> IF getRow(ws, 1)[c] = null THEN <<>> ELSE getRow(ws, 1)[c]]]

InitCalls ==
  /\ worksheet \in [1..MaxCallRows -> CallRows]
  /\ op = "init"
  /\ args = <<>>
  /\ result = NotFound

\* the mutation: the matcher writes the normalized text back into the cells
\* it scans
SeqFindMatchingRowByIdWritingBack ==
  /\ \E start \in 1..MaxCallRows, last \in {0, MaxCallRows}, id \in CallIds :
       /\ args' = [startRowNumber |-> start, lastRowNumber |-> last, id |-> id,
                   lookupCol |-> "A", lookupCondition |-> "absent", opts |-> OptsOmitted]
       /\ result' = findMatchingRowById(worksheet, args')
  /\ op' = "findMatchingRowById"
  /\ worksheet' =
       [n \in 1..Len(worksheet) |->
          [worksheet[n] EXCEPT
             !.A = IF worksheet[n].A = null THEN null
                   ELSE sanitizeText(worksheet[n].A, OptsOmitted)]]

SeqFindMatchingRowById ==
  /\ \E start \in 1..MaxCallRows, last \in {0, MaxCallRows}, id \in CallIds :
       /\ args' = [startRowNumber |-> start, lastRowNumber |-> last, id |-> id,
                   lookupCol |-> "A", lookupCondition |-> "absent", opts |-> OptsOmitted]
       /\ result' = findMatchingRowById(worksheet, args')
  /\ op' = "findMatchingRowById"
  /\ UNCHANGED worksheet

SeqFindMatchingRowByName ==
  /\ \E start \in 1..MaxCallRows, last \in {0, MaxCallRows} :
       /\ args' = [startRowNumber |-> start, lastRowNumber |-> last,
                   nameValues |-> <<[firstName |-> Jo, lastName |-> Doe]>>,
                   lookupCols |-> [kind |-> "separate", firstName |-> "A", lastName |-> "B"],
                   opts |-> OptsOmitted]
       /\ result' = findMatchingRowByName(worksheet, args')
  /\ op' = "findMatchingRowByName"
  /\ UNCHANGED worksheet

SeqFindLastRowInRecordSet ==
  /\ \E start \in 1..MaxCallRows, last \in {0, MaxCallRows}, value \in CallIds :
       /\ args' = [startRowNumber |-> start, lastRowNumber |-> last,
                   lookupCol |-> "A", lookupValue |-> value, lookupCondition |-> "absent"]
       /\ result' = findLastRowInRecordSet(worksheet, args')
  /\ op' = "findLastRowInRecordSet"
  /\ UNCHANGED worksheet

SeqFindNextRecordSetRowById ==
  /\ \E start \in 1..MaxCallRows, last \in {0, MaxCallRows}, id \in CallIds :
       /\ args' = [startRowNumber |-> start, lastRowNumber |-> last,
                   lookupCol |-> "A", id |-> id, opts |-> OptsOmitted]
       /\ result' = findNextRecordSetRowById(worksheet, args')
  /\ op' = "findNextRecordSetRowById"
  /\ UNCHANGED worksheet

SeqFindNextRecordSetRowByName ==
  /\ \E start \in 1..MaxCallRows, last \in {0, MaxCallRows} :
       /\ args' = [startRowNumber |-> start, lastRowNumber |-> last,
                   lookupCols |-> [kind |-> "separate", firstName |-> "A", lastName |-> "B"],
                   conditions |-> [given |-> FALSE, list |-> <<>>]]
       /\ result' = findNextRecordSetRowByName(worksheet, args')
  /\ op' = "findNextRecordSetRowByName"
  /\ UNCHANGED worksheet

SeqGetRowsOfMatchingRecordSet ==
  /\ \E start \in 1..MaxCallRows, last \in {0, MaxCallRows}, value \in CallIds :
       /\ args' = [startRowNumber |-> start, lastRowNumber |-> last,
                   lookupCol |-> "A", lookupValue |-> value, lookupCondition |-> "absent",
                   opts |-> OptsOmitted]
       /\ result' = getRowsOfMatchingRecordSet(worksheet, args')
  /\ op' = "getRowsOfMatchingRecordSet"
  /\ UNCHANGED worksheet

SeqFindFirstRowOfDataGroup ==
  /\ \E start \in 1..MaxCallRows :
       /\ args' = [startRowNumber |-> start, identifierCol |-> "A",
                   identifierCondition |-> "absent"]
       /\ result' = findFirstRowOfDataGroup(worksheet, args')
  /\ op' = "findFirstRowOfDataGroup"
  /\ UNCHANGED worksheet

SeqFindLastRowOfDataGroup ==
  /\ \E start \in 1..MaxCallRows :
       /\ args' = [startRowNumber |-> start, identifierCol |-> "A",
                   identifierCondition |-> "absent"]
       /\ result' = findLastRowOfDataGroup(worksheet, args')
  /\ op' = "findLastRowOfDataGroup"
  /\ UNCHANGED worksheet

SeqValidateColumns ==
  /\ \E label \in CallIds :
       /\ args' = [columnsToBeValidated |-> <<[column |-> "A", label |-> label]>>]
       /\ result' = validateColumns(HeaderRowOf(worksheet), args'.columnsToBeValidated)
  /\ op' = "validateColumns"
  /\ UNCHANGED worksheet

SeqCreateNewRowAfterRecordSet ==
  /\ Len(worksheet) < MaxCallRows + MaxInserts
  /\ \E start \in 1..MaxCallRows :
       /\ args' = [startRowNumber |-> start, lookupCol |-> "A"]
       /\ worksheet' = createNewRowAfterRecordSet(worksheet, args').worksheet
       /\ result' = createNewRowAfterRecordSet(worksheet, args').newRow
  /\ op' = "createNewRowAfterRecordSet"

NextCalls ==
  \/ SeqFindMatchingRowById
  \/ SeqFindMatchingRowByName
  \/ SeqFindLastRowInRecordSet
  \/ SeqFindNextRecordSetRowById
  \/ SeqFindNextRecordSetRowByName
  \/ SeqGetRowsOfMatchingRecordSet
  \/ SeqFindFirstRowOfDataGroup
  \/ SeqFindLastRowOfDataGroup
  \/ SeqValidateColumns
  \/ SeqCreateNewRowAfterRecordSet

SpecCalls == InitCalls /\ [][NextCalls]_vars

-----------------------------------------------------------------------------
(* Claims about sequences of calls, checked under SpecCalls *)

PureReads ==
  {"findMatchingRowById", "findMatchingRowByName", "findLastRowInRecordSet",
   "findNextRecordSetRowById", "findNextRecordSetRowByName",
   "getRowsOfMatchingRecordSet", "findFirstRowOfDataGroup",
   "findLastRowOfDataGroup", "validateColumns"}

\* what the call name(a) gives on the worksheet ws, whatever was called before
ResultOn(name, ws, a) ==
  CASE name = "findMatchingRowById" -> findMatchingRowById(ws, a)
    [] name = "findMatchingRowByName" -> findMatchingRowByName(ws, a)
    [] name = "findLastRowInRecordSet" -> findLastRowInRecordSet(ws, a)
    [] name = "findNextRecordSetRowById" -> findNextRecordSetRowById(ws, a)
    [] name = "findNextRecordSetRowByName" -> findNextRecordSetRowByName(ws, a)
    [] name = "getRowsOfMatchingRecordSet" -> getRowsOfMatchingRecordSet(ws, a)
    [] name = "findFirstRowOfDataGroup" -> findFirstRowOfDataGroup(ws, a)
    [] name = "findLastRowOfDataGroup" -> findLastRowOfDataGroup(ws, a)
    [] name = "validateColumns" -> validateColumns(HeaderRowOf(ws), a.columnsToBeValidated)

-----------------------------------------------------------------------------
(* Claims about the not-found outcome, checked under SpecCalls *)

\* no scanned row matches the id by any strategy the recorded call may use
NoIdMatch(id) ==
  /\ \A n \in ScannedRows : NormalizedLookup(n) # sanitizeText(id, OptsOmitted)
  /\ args.lookupCondition # "absent" =>
       \A n \in ScannedRows :
         ~(Truthy(NormalizedLookup(n)) /\ ApplyCondition(args.lookupCondition, NormalizedLookup(n)))
  /\ (args.lookupCondition = "absent" /\ SuffixOption(args.opts)) =>
       \A n \in ScannedRows :
         ~(NormalizedLookup(n) # undefined /\ EndsWith(NormalizedLookup(n), id))

\* no scanned row matches a candidate name in a pass the recorded call runs
NoNameMatch ==
  /\ ExactNameRows = {}
  /\ FindSimilarMatch(args.opts) => SimilarNameRows = {}

\* no scanned row starts another record set than the start row's
NoNextNameRow ==
  \A n \in NextScannedRows :
    /\ PairDecomposable(n)
    /\ \/ /\ RecordSetPair(n).firstName = RecordSetPair(ScanStart).firstName
          /\ RecordSetPair(n).lastName = RecordSetPair(ScanStart).lastName
       \/ ~SatisfiesConditions(n)

\* the recorded call found nothing to return
NothingToFind ==
  CASE op = "findMatchingRowById" -> NoIdMatch(args.id)
    [] op = "findMatchingRowByName" -> NoNameMatch
    [] op = "findNextRecordSetRowById" -> NextRecordSetRows = {}
    [] op = "findNextRecordSetRowByName" -> NoNextNameRow
    [] op = "getRowsOfMatchingRecordSet" -> NoIdMatch(args.lookupValue)
    [] OTHER -> FALSE

\* C21: not-found is a soft outcome: when the row range is empty or no scanned
\* row matches, findMatchingRowById, findMatchingRowByName,
\* findNextRecordSetRowById, findNextRecordSetRowByName and
\* getRowsOfMatchingRecordSet return undefined, also when the scanned cells
\* hold no value.
C21_NotFoundIsSoft ==
  NothingToFind =>
    IF op = "getRowsOfMatchingRecordSet" THEN result = NoRows ELSE result = NotFound

-----------------------------------------------------------------------------
(* SpecRepeat: createNewRowAfterRecordSet called up to MaxInserts times in a *)
(* row with the same startRowNumber and lookupCol, on a worksheet of         *)
(* identifier cells                                                          *)

RepeatCreateNewRowAfterRecordSet ==
  /\ Len(worksheet) < MaxGroupRows + MaxInserts
  /\ \E start \in 1..MaxGroupRows :
       /\ args' = [startRowNumber |-> start, lookupCol |-> "A"]
       /\ op = "createNewRowAfterRecordSet" => args' = args
       /\ worksheet' = createNewRowAfterRecordSet(worksheet, args').worksheet
       /\ result' = createNewRowAfterRecordSet(worksheet, args').newRow
  /\ op' = "createNewRowAfterRecordSet"

NextRepeat == RepeatCreateNewRowAfterRecordSet

SpecRepeat == InitGroup /\ [][NextRepeat]_vars

-----------------------------------------------------------------------------
(* Claims about repeated inserts, checked under SpecRepeat *)

\* a row the worksheet held before the first call: column B holds its number
IsOriginalRow(row) == row.B \notin {null, <<>>}

\* the worksheet before the first call
OriginalRows == SelectSeq(worksheet, IsOriginalRow)

\* C22: after k >= 1 consecutive createNewRowAfterRecordSet calls with the same
\* startRowNumber and lookupCol on a worksheet whose start row is populated,
\* with e the last populated row of the group before the first call: the rows
\* startRowNumber..e keep their numbers and contents, every call inserts its
\* new row at e+1, and each row numbered n > e at first is numbered n+k with
\* the same contents; the rows inserted earlier never count as group rows.
C22_RepeatedInsertsStack ==
  (/\ op = "createNewRowAfterRecordSet"
   /\ getRow(OriginalRows, args.startRowNumber).A \notin {null, <<>>})
    => LET k == Len(worksheet) - Len(OriginalRows)
           e == FirstUnpopulated(OriginalRows, args.startRowNumber, "A") - 1
       IN /\ k >= 1
          /\ result = e + 1
          /\ \A n \in 1..e : worksheet[n] = OriginalRows[n]
          /\ \A n \in (e + 1)..(e + k), c \in Columns : worksheet[n][c] \in {null, <<>>}
          /\ \A n \in (e + 1)..Len(OriginalRows) : worksheet[n + k] = OriginalRows[n]

\* two calls from row 1 on a group in rows 1..2: the new rows are rows 3 and 4,
\* the row without identifier that was row 3 is row 5 and the populated row
\* that was row 4 is row 6
C22_Witness ==
  /\ op = "createNewRowAfterRecordSet"
  /\ args.startRowNumber = 1
  /\ Len(worksheet) = MaxGroupRows + 2
  /\ result = 3
  /\ worksheet[1].B = <<"1">> /\ worksheet[2].B = <<"2">>
  /\ worksheet[5] = [A |-> null, B |-> <<"3">>]
  /\ worksheet[6] = [A |-> <<"B">>, B |-> <<"4">>]

-----------------------------------------------------------------------------
(* data.createNewRowForEmployeeNotFound *)

\* worksheet.duplicateRow(n, 1, true): a copy of row n is inserted after row n
\* and the rows after it move down by one
duplicateRow(ws, n) ==
  LET stored == [i \in 1..(IF Len(ws) < n THEN n ELSE Len(ws)) |-> getRow(ws, i)]
  IN SubSeq(stored, 1, n) \o <<getRow(ws, n)>> \o SubSeq(stored, n + 1, Len(stored))

-----------------------------------------------------------------------------
(* SpecScan: one call of a boundary scan, a step for every test of its while *)
(* loop.  While the call is in its loop, op is the name of the call followed *)
(* by " while" and result is the row number the loop is at; when the call    *)
(* has returned, op is its name and result its value.                        *)

\* the identifierCondition callbacks of SpecScan: one of them accepts every
\* value it is asked about
ScanConditions == {"absent", "startsWithB", "always"}

\* the start rows: the rows of the data and the row after them
ScanStarts == 1..(MaxGroupRows + 1)

\* the loop variable is followed as far as one row beyond the first row past
\* the data, and as far as one row below row 0
ForwardStep == result <= Len(worksheet) + 1
BackwardStep == result >= 0

BeginCreateNewRowAfterRecordSet ==
  /\ op = "init"
  /\ \E start \in ScanStarts :
       /\ args' = [startRowNumber |-> start, lookupCol |-> "A"]
       /\ result' = start
  /\ op' = "createNewRowAfterRecordSet while"
  /\ UNCHANGED worksheet

WhileCreateNewRowAfterRecordSet ==
  /\ op = "createNewRowAfterRecordSet while"
  /\ ForwardStep
  /\ Populated(getRow(worksheet, result)[args.lookupCol])
  /\ result' = result + 1
  /\ UNCHANGED <<worksheet, op, args>>

ReturnCreateNewRowAfterRecordSet ==
  /\ op = "createNewRowAfterRecordSet while"
  /\ ~Populated(getRow(worksheet, result)[args.lookupCol])
  /\ worksheet' = ClearRow(insertRow(worksheet, (result - 1) + 1), (result - 1) + 1)
  /\ result' = (result - 1) + 1
  /\ op' = "createNewRowAfterRecordSet"
  /\ UNCHANGED args

BeginCreateNewRowAfterDataGroup ==
  /\ op = "init"
  /\ \E start \in ScanStarts :
       /\ args' = [startRowNumber |-> start, identifierCol |-> "A"]
       /\ result' = start
  /\ op' = "createNewRowAfterDataGroup while"
  /\ UNCHANGED worksheet

WhileCreateNewRowAfterDataGroup ==
  /\ op = "createNewRowAfterDataGroup while"
  /\ ForwardStep
  /\ Populated(getRow(worksheet, result)[args.identifierCol])
  /\ result' = result + 1
  /\ UNCHANGED <<worksheet, op, args>>

ReturnCreateNewRowAfterDataGroup ==
  /\ op = "createNewRowAfterDataGroup while"
  /\ ~Populated(getRow(worksheet, result)[args.identifierCol])
  /\ worksheet' = ClearRow(insertRow(worksheet, (result - 1) + 1), (result - 1) + 1)
  /\ result' = (result - 1) + 1
  /\ op' = "createNewRowAfterDataGroup"
  /\ UNCHANGED args

BeginCreateNewRowForEmployeeNotFound ==
  /\ op = "init"
  /\ \E start \in ScanStarts :
       /\ args' = [startRowNumber |-> start, identifierCol |-> "A"]
       /\ result' = start
  /\ op' = "createNewRowForEmployeeNotFound while"
  /\ UNCHANGED worksheet

WhileCreateNewRowForEmployeeNotFound ==
  /\ op = "createNewRowForEmployeeNotFound while"
  /\ ForwardStep
  /\ Populated(getRow(worksheet, result)[args.identifierCol])
  /\ result' = result + 1
  /\ UNCHANGED <<worksheet, op, args>>

ReturnCreateNewRowForEmployeeNotFound ==
  /\ op = "createNewRowForEmployeeNotFound while"
  /\ ~Populated(getRow(worksheet, result)[args.identifierCol])
  /\ worksheet' = duplicateRow(worksheet, result - 1)
  /\ result' = (result - 1) + 1
  /\ op' = "createNewRowForEmployeeNotFound"
  /\ UNCHANGED args

BeginFindLastRowOfDataGroup ==
  /\ op = "init"
  /\ \E start \in ScanStarts, cond \in ScanConditions :
       /\ args' = [startRowNumber |-> start, identifierCol |-> "A",
                   identifierCondition |-> cond]
       /\ result' = start
  /\ op' = "findLastRowOfDataGroup while"
  /\ UNCHANGED worksheet

WhileFindLastRowOfDataGroup ==
  /\ op = "findLastRowOfDataGroup while"
  /\ ForwardStep
  /\ InDataGroup(args.identifierCondition, CellText(worksheet, result, args.identifierCol))
  /\ result' = result + 1
  /\ UNCHANGED <<worksheet, op, args>>

ReturnFindLastRowOfDataGroup ==
  /\ op = "findLastRowOfDataGroup while"
  /\ ~InDataGroup(args.identifierCondition, CellText(worksheet, result, args.identifierCol))
  /\ result' = result - 1
  /\ op' = "findLastRowOfDataGroup"
  /\ UNCHANGED <<worksheet, args>>

BeginFindFirstRowOfDataGroup ==
  /\ op = "init"
  /\ \E start \in ScanStarts, cond \in ScanConditions :
       /\ args' = [startRowNumber |-> start, identifierCol |-> "A",
                   identifierCondition |-> cond]
       /\ result' = start
  /\ op' = "findFirstRowOfDataGroup while"
  /\ UNCHANGED worksheet

WhileFindFirstRowOfDataGroup ==
  /\ op = "findFirstRowOfDataGroup while"
  /\ BackwardStep
  /\ InDataGroup(args.identifierCondition, CellText(worksheet, result, args.identifierCol))
  /\ result' = result - 1
  /\ UNCHANGED <<worksheet, op, args>>

ReturnFindFirstRowOfDataGroup ==
  /\ op = "findFirstRowOfDataGroup while"
  /\ ~InDataGroup(args.identifierCondition, CellText(worksheet, result, args.identifierCol))
  /\ result' = result + 1
  /\ op' = "findFirstRowOfDataGroup"
  /\ UNCHANGED <<worksheet, args>>

NextScan ==
  \/ BeginCreateNewRowAfterRecordSet
  \/ WhileCreateNewRowAfterRecordSet
  \/ ReturnCreateNewRowAfterRecordSet
  \/ BeginCreateNewRowAfterDataGroup
  \/ WhileCreateNewRowAfterDataGroup
  \/ ReturnCreateNewRowAfterDataGroup
  \/ BeginCreateNewRowForEmployeeNotFound
  \/ WhileCreateNewRowForEmployeeNotFound
  \/ ReturnCreateNewRowForEmployeeNotFound
  \/ BeginFindLastRowOfDataGroup
  \/ WhileFindLastRowOfDataGroup
  \/ ReturnFindLastRowOfDataGroup
  \/ BeginFindFirstRowOfDataGroup
  \/ WhileFindFirstRowOfDataGroup
  \/ ReturnFindFirstRowOfDataGroup

SpecScan == InitGroup /\ [][NextScan]_vars

\* the code is synchronous: a call that can take its next step takes it
SpecScanFair == SpecScan /\ WF_vars(NextScan)

-----------------------------------------------------------------------------
(* Claims about the boundary scans, checked under SpecScanFair *)

ForwardScans ==
  {"createNewRowAfterRecordSet while", "createNewRowAfterDataGroup while",
   "createNewRowForEmployeeNotFound while", "findLastRowOfDataGroup while"}

BackwardScans == {"findFirstRowOfDataGroup while"}

ReturnedScans ==
  {"createNewRowAfterRecordSet", "createNewRowAfterDataGroup",
   "createNewRowForEmployeeNotFound", "findLastRowOfDataGroup",
   "findFirstRowOfDataGroup"}

\* C23: the boundary scans terminate on a worksheet with finitely many
\* populated rows: the forward loops of createNewRowAfterRecordSet,
\* createNewRowAfterDataGroup, createNewRowForEmployeeNotFound and
\* findLastRowOfDataGroup go no further than the first row past the data, whose
\* identifier cell is empty, the backward loop of findFirstRowOfDataGroup goes
\* no lower than row 0, and every call that entered its loop returns, for
\* every start row and every identifierCondition.
C23_BoundaryScansTerminate ==
  /\ [](op \in ForwardScans =>
          /\ result \in args.startRowNumber..(Len(worksheet) + 1)
          /\ getRow(worksheet, Len(worksheet) + 1).A = null)
  /\ [](op \in BackwardScans => result \in 0..args.startRowNumber)
  /\ (op \in ForwardScans \cup BackwardScans) ~> (op \in ReturnedScans)

\* findLastRowOfDataGroup, with a condition that accepts every value it is
\* asked about, ran from row 1 over populated rows only and returned the last
\* row of the data
C23_Witness ==
  /\ op = "findLastRowOfDataGroup"
  /\ args.identifierCondition = "always"
  /\ args.startRowNumber = 1
  /\ result = Len(worksheet)
  /\ \A n \in 1..Len(worksheet) : worksheet[n].A \notin {null, <<>>}

====
